---- MODULE Spec2Model ----
(***************************************************************************)
(* Model of four subsystems of bite:                                       *)
(*   - Processor::recurse, the worklist decode sweep (src/disassembly.rs)  *)
(*   - the Rust v0 demangler, parse / Parser (src/symbols/rust_modern.rs)  *)
(*   - Disassembly::new, the loading of an image (src/disassembly.rs)      *)
(*   - Backend::redraw, the window showing the load (src/gui/window.rs)    *)
(* Each subsystem has its own specification (SweepSpec, ParseSpec,         *)
(* LoadSpec, GuiSpec); the variables of the other subsystems stay at their *)
(* idle values.                                                            *)
(***************************************************************************)
EXTENDS Integers, Sequences, FiniteSets, TLC

VARIABLES
    \* ---- Processor (disassembly.rs:168-174) and the locals of recurse
    section_len,        \* self.section.len()
    base_addr,          \* self.base_addr
    entrypoint,         \* self.entrypoint
    decoder,            \* self.decoder applied to section[off..], by offset
    overflow_checks,    \* build profile: TRUE = overflow panics, FALSE = wraps
    parsed,             \* self.parsed : address -> decode result
    unexplored_data,    \* work queue (VecDeque<usize>)
    raw_instructions,   \* staging queue (VecDeque<(usize, Instruction)>)
    pc,                 \* position inside recurse
    attempts,           \* history: every decoder.decode call, in order
    inserted,           \* history: every self.parsed.insert call, in order
    reenqueued,         \* OrderSpec only: a decoded address was enqueued a second time
    \* ---- parse and Parser (rust_modern.rs:8-26)
    input,              \* the mangled symbol s, a sequence of characters
    stream,             \* parser.stream: the tokens pushed so far
    offset,             \* parser.offset
    depth,              \* parser.depth
    stack,              \* the call stack of path / tipe / generic activations
    ret,                \* the value the last finished activation returned
    status,             \* position of parse: "idle", "called", "running", "returned", "panic"
    result,             \* what parse returned: "none", or "some" with the stream
    \* ---- Disassembly::new (disassembly.rs:49-143)
    stage,              \* position inside Disassembly::new
    env,                \* what the file holds: the outcome of each step, format, architecture
    error,              \* the DecodeError returned, "none" so far
    show_donut,         \* the shared AtomicBool
    trail,              \* history: the steps run, in order
    \* ---- RenderContext and Backend::redraw (gui/window.rs:232-417)
    listing_offset,     \* ctx.listing_offset, in pixels
    dissasembly,        \* ctx.dissasembly: "none", or "some" with the Processor's table
    redraw,             \* position inside redraw
    rows                \* listing rows the running redraw has still to render

sweepVars == <<section_len, base_addr, entrypoint, decoder, overflow_checks,
               parsed, unexplored_data, raw_instructions, pc, attempts, inserted, reenqueued>>

parseVars == <<input, stream, offset, depth, stack, ret, status, result>>

guiVars == <<listing_offset, dissasembly, redraw, rows>>

\* the load, and the window that shows it
loadVars == <<stage, env, error, show_donut, trail, guiVars>>

vars == <<sweepVars, parseVars, loadVars>>

----------------------------------------------------------------------------
(* Bounds of the model *)

\* width of usize in bits (Rust targets have 16, 32 or 64)
UsizeBits == 16
\* longest section buffer
MaxSecLen == 3
\* base addresses are taken from 0..MaxAddr and from the MaxAddr highest words
MaxAddr == 2

UsizeMax == 2^UsizeBits - 1

\* disassembly.rs:199, the fallback offset 0x1000
FALLBACK_OFFSET == 4096

----------------------------------------------------------------------------
(* usize arithmetic *)

\* a.checked_sub(b): None is modelled as -1
CheckedSub(a, b) == IF a >= b THEN a - b ELSE -1

\* a + b overflows usize
Overflows(a, b) == a + b > UsizeMax

\* a + b in a build without overflow checks
WrapAdd(a, b) == (a + b) % (UsizeMax + 1)

----------------------------------------------------------------------------
(* The decoder: Decodable::decode on the byte slice section[off..].  The    *)
(* result depends only on the bytes it is given, so a decoder together with *)
(* a section is a function from offsets to results.                         *)

Incomplete == [ok |-> FALSE, complete |-> FALSE, width |-> 0, xrefs |-> FALSE]

\* results a decode can return when `rem` bytes remain
DecodeResults(rem) ==
    {[ok |-> TRUE, complete |-> TRUE, width |-> w, xrefs |-> FALSE] : w \in 1..rem}
    \cup {[ok |-> FALSE, complete |-> TRUE, width |-> w, xrefs |-> FALSE] : w \in 1..rem}
    \cup {Incomplete}

Decoders(len) ==
    {f \in [0..len -> DecodeResults(len)] : \A o \in 0..len : f[o] \in DecodeResults(len - o)}

BaseAddrs == (0..MaxAddr) \cup ((UsizeMax - MaxAddr + 1)..UsizeMax)

EntryAddrs == (0..(2 * MaxAddr)) \cup {UsizeMax}

----------------------------------------------------------------------------
(* Processor *)

EmptyMap == [a \in {} |-> Incomplete]

\* BTreeMap::insert: adds the key or replaces its value
MapInsert(m, k, v) == [a \in (DOMAIN m) \cup {k} |-> IF a = k THEN v ELSE m[a]]

\* Processor::bytes_by_addr: the offset of the slice, or -1 for None.
\* section.get(off..) is Some for every off <= len (an empty slice at off = len).
bytes_by_addr(addr) ==
    LET off == CheckedSub(addr, base_addr)
    IN  IF off >= 0 /\ off <= section_len THEN off ELSE -1

\* Metadata::new: find_xrefs on the instruction, then wrap it
MetadataNew(inst) == [inst EXCEPT !.xrefs = TRUE]

\* the architectures Disassembly::new has a decoder for (lines 89-125)
Supported == {"Riscv32", "Riscv64", "Mips", "Mips64", "X86_64_X32", "X86_64"}

\* object::Architecture: the supported ones and two of the others
Architectures == Supported \cup {"Aarch64", "Unknown"}

\* object::BinaryFormat: Pe and one of the others
Formats == {"Pe", "Elf"}

\* What a file can hold, as far as Disassembly::new looks at it: whether each
\* fallible step succeeds on it, whether a text section's address + size
\* overflows before the section of the entrypoint is found, its format, word size
\* and architecture.
Envs ==
    [read : BOOLEAN, parse : BOOLEAN, section : BOOLEAN, range_overflow : BOOLEAN,
     decompress : BOOLEAN, debug : BOOLEAN, imports : BOOLEAN,
     format : Formats, is_64 : BOOLEAN, arch : Architectures]

\* no redraw is running and nothing is shown
GuiIdle ==
    /\ listing_offset = 0
    /\ dissasembly = "none"
    /\ redraw = "idle"
    /\ rows = 0

\* no image is being loaded
LoadIdle ==
    /\ GuiIdle
    /\ stage = "idle"
    /\ env = [read |-> TRUE, parse |-> TRUE, section |-> TRUE, range_overflow |-> FALSE,
              decompress |-> TRUE, debug |-> TRUE, imports |-> TRUE,
              format |-> "Elf", is_64 |-> TRUE, arch |-> "X86_64"]
    /\ error = "none"
    /\ show_donut = FALSE
    /\ trail = <<>>

\* no symbol is being demangled
ParserIdle ==
    /\ input = <<>>
    /\ stream = <<>>
    /\ offset = 0
    /\ depth = 0
    /\ stack = <<>>
    /\ ret = "-"
    /\ status = "idle"
    /\ result = "-"

\* Processor::new, for a section of at most maxLen bytes
ProcessorNew(maxLen, bases) ==
    /\ section_len \in 0..maxLen
    /\ base_addr \in bases
    /\ entrypoint \in EntryAddrs
    /\ decoder \in Decoders(section_len)
    /\ overflow_checks \in BOOLEAN
    /\ parsed = EmptyMap
    /\ unexplored_data = <<>>
    /\ raw_instructions = <<>>
    /\ pc = "new"
    /\ attempts = <<>>
    /\ inserted = <<>>
    /\ reenqueued = FALSE
    /\ ParserIdle
    /\ LoadIdle

SweepInit == ProcessorNew(MaxSecLen, BaseAddrs)

procIn == <<section_len, base_addr, entrypoint, decoder, overflow_checks>>

\* recurse, lines 188-201: the two seeds
Seed ==
    /\ pc = "new"
    /\ LET e == CheckedSub(entrypoint, base_addr)
       IN  IF e >= 0
           THEN /\ unexplored_data' = <<base_addr, e>>
                /\ pc' = "sweep"
           ELSE IF ~Overflows(base_addr, FALLBACK_OFFSET)
           THEN /\ unexplored_data' = <<base_addr, base_addr + FALLBACK_OFFSET>>
                /\ pc' = "sweep"
           ELSE IF overflow_checks
           THEN /\ unexplored_data' = <<base_addr>>
                /\ pc' = "panic"
           ELSE /\ unexplored_data' = <<base_addr, WrapAdd(base_addr, FALLBACK_OFFSET)>>
                /\ pc' = "sweep"
    /\ UNCHANGED <<loadVars, parseVars, procIn, parsed, raw_instructions, attempts, inserted, reenqueued>>

\* line 231: unexplored_data.push_back(addr + width)
PushSuccessor(rest, addr, width) ==
    IF ~Overflows(addr, width)
    THEN /\ unexplored_data' = Append(rest, addr + width)
         /\ pc' = "sweep"
    ELSE IF overflow_checks
    THEN /\ unexplored_data' = rest
         /\ pc' = "panic"
    ELSE /\ unexplored_data' = Append(rest, WrapAdd(addr, width))
         /\ pc' = "sweep"

\* the queue without its i-th element
Without(q, i) == SubSeq(q, 1, i - 1) \o SubSeq(q, i + 1, Len(q))

\* lines 203-207: the address taken from the queue is already in the table
SkipParsedAt(i) ==
    /\ pc = "sweep"
    /\ i \in 1..Len(unexplored_data)
    /\ unexplored_data[i] \in DOMAIN parsed
    /\ unexplored_data' = Without(unexplored_data, i)
    /\ UNCHANGED <<loadVars, parseVars, procIn, parsed, raw_instructions, pc, attempts, inserted, reenqueued>>

\* lines 209-213: bytes_by_addr is None
SkipOutsideAt(i) ==
    /\ pc = "sweep"
    /\ i \in 1..Len(unexplored_data)
    /\ unexplored_data[i] \notin DOMAIN parsed
    /\ bytes_by_addr(unexplored_data[i]) = -1
    /\ unexplored_data' = Without(unexplored_data, i)
    /\ UNCHANGED <<loadVars, parseVars, procIn, parsed, raw_instructions, pc, attempts, inserted, reenqueued>>

\* the guard of a decode attempt on the i-th queued address
CanDecode(i) ==
    /\ pc = "sweep"
    /\ i \in 1..Len(unexplored_data)
    /\ unexplored_data[i] \notin DOMAIN parsed
    /\ bytes_by_addr(unexplored_data[i]) /= -1

\* line 216: self.decoder.decode(&mut reader) on the slice found for addr
Decode(addr) == decoder[bytes_by_addr(addr)]

\* DecodeOkAt with the instruction not staged (line 220 missing)
DecodeOkNotStaged(i) ==
    /\ CanDecode(i)
    /\ LET addr == unexplored_data[i]
           res == Decode(addr)
       IN  /\ res.ok
           /\ attempts' = Append(attempts, [addr |-> addr, res |-> res])
           /\ PushSuccessor(Without(unexplored_data, i), addr, res.width)
    /\ UNCHANGED <<loadVars, parseVars, procIn, parsed, raw_instructions, inserted, reenqueued>>

\* lines 215-222, 231: success, staged
DecodeOkAt(i) ==
    /\ CanDecode(i)
    /\ LET addr == unexplored_data[i]
           res == Decode(addr)
       IN  /\ res.ok
           /\ attempts' = Append(attempts, [addr |-> addr, res |-> res])
           /\ raw_instructions' = Append(raw_instructions, [addr |-> addr, inst |-> res])
           /\ PushSuccessor(Without(unexplored_data, i), addr, res.width)
    /\ UNCHANGED <<loadVars, parseVars, procIn, parsed, inserted, reenqueued>>

\* DecodeIncompleteAt leaving the loop (break in place of continue on line 223)
DecodeIncompleteBreaks(i) ==
    /\ CanDecode(i)
    /\ LET addr == unexplored_data[i]
           res == Decode(addr)
       IN  /\ ~res.ok /\ ~res.complete
           /\ attempts' = Append(attempts, [addr |-> addr, res |-> res])
           /\ unexplored_data' = <<>>
    /\ UNCHANGED <<loadVars, parseVars, procIn, parsed, raw_instructions, pc, inserted, reenqueued>>

\* DecodeIncompleteAt recording the failure (the guard of line 223 missing)
DecodeIncompleteRecorded(i) ==
    /\ CanDecode(i)
    /\ LET addr == unexplored_data[i]
           res == Decode(addr)
       IN  /\ ~res.ok /\ ~res.complete
           /\ attempts' = Append(attempts, [addr |-> addr, res |-> res])
           /\ parsed' = MapInsert(parsed, addr, res)
           /\ inserted' = Append(inserted, addr)
           /\ PushSuccessor(Without(unexplored_data, i), addr, res.width)
    /\ UNCHANGED <<loadVars, parseVars, procIn, raw_instructions, reenqueued>>

\* DecodeIncompleteAt stepping over one byte (the failure treated as one of width 1)
DecodeIncompleteSkipsByte(i) ==
    /\ CanDecode(i)
    /\ LET addr == unexplored_data[i]
           res == Decode(addr)
       IN  /\ ~res.ok /\ ~res.complete
           /\ attempts' = Append(attempts, [addr |-> addr, res |-> res])
           /\ PushSuccessor(Without(unexplored_data, i), addr, 1)
    /\ UNCHANGED <<loadVars, parseVars, procIn, parsed, raw_instructions, inserted, reenqueued>>

\* line 223: a failure that is not complete
DecodeIncompleteAt(i) ==
    /\ CanDecode(i)
    /\ LET addr == unexplored_data[i]
           res == Decode(addr)
       IN  /\ ~res.ok /\ ~res.complete
           /\ attempts' = Append(attempts, [addr |-> addr, res |-> res])
           /\ unexplored_data' = Without(unexplored_data, i)
    /\ UNCHANGED <<loadVars, parseVars, procIn, parsed, raw_instructions, pc, inserted, reenqueued>>

\* DecodeFailedAt with the failure recorded under the successor address
DecodeFailedAtSuccessor(i) ==
    /\ CanDecode(i)
    /\ LET addr == unexplored_data[i]
           res == Decode(addr)
       IN  /\ ~res.ok /\ res.complete
           /\ attempts' = Append(attempts, [addr |-> addr, res |-> res])
           /\ parsed' = MapInsert(parsed, addr + res.width, res)
           /\ inserted' = Append(inserted, addr)
           /\ PushSuccessor(Without(unexplored_data, i), addr, res.width)
    /\ UNCHANGED <<loadVars, parseVars, procIn, raw_instructions, reenqueued>>

\* lines 224-228, 231: a complete failure, recorded in the table
DecodeFailedAt(i) ==
    /\ CanDecode(i)
    /\ LET addr == unexplored_data[i]
           res == Decode(addr)
       IN  /\ ~res.ok /\ res.complete
           /\ attempts' = Append(attempts, [addr |-> addr, res |-> res])
           /\ parsed' = MapInsert(parsed, addr, res)
           /\ inserted' = Append(inserted, addr)
           /\ PushSuccessor(Without(unexplored_data, i), addr, res.width)
    /\ UNCHANGED <<loadVars, parseVars, procIn, raw_instructions, reenqueued>>

\* line 203, pop_front: the code takes the head of the queue
SkipParsed == SkipParsedAt(1)

SkipOutside == SkipOutsideAt(1)

DecodeOk == DecodeOkAt(1)

DecodeIncomplete == DecodeIncompleteAt(1)

DecodeFailed == DecodeFailedAt(1)

\* line 203: the work queue is empty, the first loop ends
SweepDrained ==
    /\ pc = "sweep"
    /\ unexplored_data = <<>>
    /\ pc' = "commit"
    /\ UNCHANGED <<loadVars, parseVars, procIn, parsed, unexplored_data, raw_instructions, attempts, inserted, reenqueued>>

\* Commit without Metadata::new (find_xrefs not run on the instruction)
CommitUnresolved ==
    /\ pc = "commit"
    /\ raw_instructions /= <<>>
    /\ LET r == Head(raw_instructions)
       IN  /\ parsed' = MapInsert(parsed, r.addr, r.inst)
           /\ inserted' = Append(inserted, r.addr)
    /\ raw_instructions' = Tail(raw_instructions)
    /\ UNCHANGED <<loadVars, parseVars, procIn, unexplored_data, pc, attempts, reenqueued>>

\* lines 234-238: one staged instruction gets its metadata and is committed
Commit ==
    /\ pc = "commit"
    /\ raw_instructions /= <<>>
    /\ LET r == Head(raw_instructions)
       IN  /\ parsed' = MapInsert(parsed, r.addr, MetadataNew(r.inst))
           /\ inserted' = Append(inserted, r.addr)
    /\ raw_instructions' = Tail(raw_instructions)
    /\ UNCHANGED <<loadVars, parseVars, procIn, unexplored_data, pc, attempts, reenqueued>>

\* line 239: recurse returns
Return ==
    /\ pc = "commit"
    /\ raw_instructions = <<>>
    /\ pc' = "done"
    /\ UNCHANGED <<loadVars, parseVars, procIn, parsed, unexplored_data, raw_instructions, attempts, inserted, reenqueued>>

SweepNext ==
    \/ Seed
    \/ SkipParsed
    \/ SkipOutside
    \/ DecodeOk
    \/ DecodeIncomplete
    \/ DecodeFailed
    \/ SweepDrained
    \/ Commit
    \/ Return

SweepSpec == SweepInit /\ [][SweepNext]_vars

\* the sweep runs to completion on the calling thread: a step that can be taken is taken
FairSweepSpec == SweepSpec /\ WF_vars(SweepNext)

----------------------------------------------------------------------------
(* The sweep with the pending addresses taken in any order, and with the    *)
(* address decoded last enqueued a second time, once in a run, at any later *)
(* moment of the sweep.                                                     *)

\* longest section buffer in OrderSpec
MaxOrderLen == 2

ReEnqueue ==
    /\ pc = "sweep"
    /\ ~reenqueued
    /\ attempts /= <<>>
    /\ unexplored_data' = Append(unexplored_data, attempts[Len(attempts)].addr)
    /\ reenqueued' = TRUE
    /\ UNCHANGED <<loadVars, parseVars, procIn, parsed, raw_instructions, pc, attempts, inserted>>

OrderNext ==
    \/ Seed
    \/ \E i \in 1..Len(unexplored_data) : SkipParsedAt(i)
    \/ \E i \in 1..Len(unexplored_data) : SkipOutsideAt(i)
    \/ \E i \in 1..Len(unexplored_data) : DecodeOkAt(i)
    \/ \E i \in 1..Len(unexplored_data) : DecodeIncompleteAt(i)
    \/ \E i \in 1..Len(unexplored_data) : DecodeFailedAt(i)
    \/ ReEnqueue
    \/ SweepDrained
    \/ Commit
    \/ Return

OrderInit == ProcessorNew(MaxOrderLen, (0..MaxAddr) \cup {UsizeMax})

OrderSpec == OrderInit /\ [][OrderNext]_vars

----------------------------------------------------------------------------
(* The demangler: characters and the token stream *)

\* rust_modern.rs:6
MAX_DEPTH == 256

\* the longest token stream the model records; a push onto a longer one is not recorded
MaxStream == 600

Digits == <<"0", "1", "2", "3", "4", "5", "6", "7", "8", "9">>

Lower == <<"a", "b", "c", "d", "e", "f", "g", "h", "i", "j", "k", "l", "m",
           "n", "o", "p", "q", "r", "s", "t", "u", "v", "w", "x", "y", "z">>

Upper == <<"A", "B", "C", "D", "E", "F", "G", "H", "I", "J", "K", "L", "M",
           "N", "O", "P", "Q", "R", "S", "T", "U", "V", "W", "X", "Y", "Z">>

Range(seq) == {seq[i] : i \in 1..Len(seq)}

\* chr - first, for chr in the run of characters seq
IndexIn(seq, c) == (CHOOSE i \in 1..Len(seq) : seq[i] = c) - 1

IsDigit(c) == c \in Range(Digits)

\* a character that is not ASCII (line 10)
NonAscii == "<80>"

\* TokenStream::push(text, color)
Push(s, text, color) ==
    IF Len(s) < MaxStream THEN Append(s, [text |-> text, color |-> color]) ELSE s

\* String::from_iter(tokens.map(|t| t.text))
RECURSIVE Text(_)
Text(s) ==
    IF s = <<>> THEN <<>>
    ELSE IF Len(s) = 1 THEN s[1].text
    ELSE LET half == Len(s) \div 2
         IN  Text(SubSeq(s, 1, half)) \o Text(SubSeq(s, half + 1, Len(s)))

----------------------------------------------------------------------------
(* Primitive decoders.  Each takes the offset it starts at and returns      *)
(* st ("some", "none" or "panic"), the offset it leaves in self.offset, and *)
(* its value.                                                               *)

Some(off, val) == [st |-> "some", off |-> off, val |-> val]

None(off) == [st |-> "none", off |-> off, val |-> 0]

Panic(off) == [st |-> "panic", off |-> off, val |-> 0]

\* Parser::peek (lines 51-53): the byte at off, "" for None
Peek(off) == IF off < Len(input) THEN input[off + 1] ELSE ""

\* Parser::peek_slice(0..2) (lines 55-57), <<>> for None
PeekSlice2(off) == IF off + 2 <= Len(input) THEN SubSeq(input, off + 1, off + 2) ELSE <<>>

\* Parser::consume (lines 60-67): whether it returns Some; the offset is then off + 1
Consume(off, byte) == Peek(off) = byte

\* lines 79-85: the value of a base-62 digit
IsBase62(c) == c \in Range(Digits) \cup Range(Lower) \cup Range(Upper)

Base62Digit(c) ==
    IF c \in Range(Digits) THEN IndexIn(Digits, c)
    ELSE IF c \in Range(Lower) THEN IndexIn(Lower, c) + 10
    ELSE IndexIn(Upper, c) + 36

RECURSIVE Base62Loop(_, _)
\* Parser::base62, the loop of lines 78-93
Base62Loop(off, num) ==
    IF off >= Len(input) THEN None(off)
    ELSE LET chr == input[off + 1]
         IN  IF chr = "_"
             THEN (IF num + 1 > UsizeMax THEN None(off) ELSE Some(off, num + 1))
             ELSE IF ~IsBase62(chr) THEN None(off)
             ELSE IF num * 62 > UsizeMax THEN None(off)
             ELSE IF num * 62 + Base62Digit(chr) > UsizeMax THEN None(off)
             ELSE Base62Loop(off + 1, num * 62 + Base62Digit(chr))

\* Parser::base62 (lines 71-94)
Base62(off) == IF Consume(off, "_") THEN Some(off + 1, 0) ELSE Base62Loop(off, 0)

RECURSIVE Base10Loop(_, _)
\* Parser::base10 (lines 97-108)
Base10Loop(off, len) ==
    IF off < Len(input) /\ IsDigit(input[off + 1])
    THEN LET digit == IndexIn(Digits, input[off + 1])
         IN  IF len * 10 > UsizeMax THEN None(off)
             ELSE IF len * 10 + digit > UsizeMax THEN None(off)
             ELSE Base10Loop(off + 1, len * 10 + digit)
    ELSE Some(off, len)

Base10(off) == Base10Loop(off, 0)

\* Parser::disambiguator (lines 111-118).  After consume(b's') the offset is advanced
\* once more; base62 then slices the input at that offset (src, line 47), which panics
\* when the offset is past the end of the input.
Disambiguator(off) ==
    IF Consume(off, "s")
    THEN (IF off + 2 > Len(input) THEN Panic(off + 2) ELSE Base62(off + 2))
    ELSE None(off)

\* Ident with the separator of line 127 left in the input
IdentKeepsSeparator(off) ==
    IF Consume(off, "u") THEN Panic(off + 1)
    ELSE LET len == Base10(off)
         IN  IF len.st = "none" THEN None(len.off)
             ELSE IF len.val <= Len(input) - len.off
             THEN Some(len.off + len.val, SubSeq(input, len.off + 1, len.off + len.val))
             ELSE None(len.off)

\* Parser::ident (lines 121-133)
Ident(off) ==
    IF Consume(off, "u") THEN Panic(off + 1)
    ELSE LET len == Base10(off)
         IN  IF len.st = "none" THEN None(len.off)
             ELSE LET o == IF Consume(len.off, "_") THEN len.off + 1 ELSE len.off
                  IN  IF len.val <= Len(input) - o
                      THEN Some(o + len.val, SubSeq(input, o + 1, o + len.val))
                      ELSE None(o)

\* Parser::namespace (lines 135-146)
Namespace(off) ==
    LET c == Peek(off)
    IN  IF c = "C" THEN Some(off + 1, "Closure")
        ELSE IF c = "S" THEN Some(off + 1, "Shim")
        ELSE IF c \in Range(Upper) THEN Some(off + 1, "Special")
        ELSE IF c \in Range(Lower) THEN Some(off + 1, "Internal")
        ELSE None(off)

\* Parser::lifetime (lines 169-177); val: whether "'_" is pushed
Lifetime(off) ==
    IF ~Consume(off, "L") THEN None(off)
    ELSE LET n == Base62(off + 1)
         IN  IF n.st = "none" THEN None(n.off) ELSE Some(n.off, n.val /= 0)

\* Parser::binder (lines 179-182)
Binder(off) == IF ~Consume(off, "G") THEN None(off) ELSE Base62(off + 1)

\* Parser::constant (lines 165-167)
Constant(off) == None(off)

\* Parser::basic_tipe (lines 184-212): the name, <<>> for None
BasicTipe(prefix) ==
    CASE prefix = "b" -> <<"b", "o", "o", "l">>
      [] prefix = "c" -> <<"c", "h", "a", "r">>
      [] prefix = "e" -> <<"s", "t", "r">>
      [] prefix = "u" -> <<"(", ")">>
      [] prefix = "a" -> <<"i", "8">>
      [] prefix = "s" -> <<"i", "1", "6">>
      [] prefix = "l" -> <<"i", "3", "2">>
      [] prefix = "x" -> <<"i", "6", "4">>
      [] prefix = "n" -> <<"i", "1", "2", "8">>
      [] prefix = "i" -> <<"i", "s", "i", "z", "e">>
      [] prefix = "h" -> <<"u", "8">>
      [] prefix = "t" -> <<"u", "1", "6">>
      [] prefix = "m" -> <<"u", "3", "2">>
      [] prefix = "y" -> <<"u", "6", "4">>
      [] prefix = "o" -> <<"u", "1", "2", "8">>
      [] prefix = "j" -> <<"u", "s", "i", "z", "e">>
      [] prefix = "f" -> <<"f", "3", "2">>
      [] prefix = "d" -> <<"f", "6", "4">>
      [] prefix = "z" -> <<"!">>
      [] prefix = "p" -> <<"_">>
      [] prefix = "v" -> <<".", ".", ".">>
      [] OTHER -> <<>>

----------------------------------------------------------------------------
(* The parser as a machine.  path, tipe and generic call each other, so each *)
(* activation is a frame on `stack`: the function, the place it resumes at   *)
(* when its callee returns, and its locals.  `iters` records only whether    *)
(* the loop counter is 0, which is all the code reads of it.                 *)

Frame(fn, off) ==
    [fn |-> fn, pc |-> "enter", ns |-> "-", next_is_type |-> FALSE,
     iters |-> 0, prefix |-> "", entry |-> off]

Top == stack[Len(stack)]

Callers == SubSeq(stack, 1, Len(stack) - 1)

\* the top activation is at place `at` of function fn
At(fn, at) == status = "running" /\ stack /= <<>> /\ Top.fn = fn /\ Top.pc = at

\* lines 215-219 and 320-324: the activation passes the depth guard
Entering(fn) == At(fn, "enter") /\ depth <= MAX_DEPTH

\* the top activation returns v
Finish(v, off, strm) ==
    /\ stack' = Callers
    /\ ret' = v
    /\ offset' = off
    /\ stream' = strm
    /\ UNCHANGED <<input, status, result>>

\* the top activation calls callee and will resume as frame cont
Call(callee, cont, off, strm) ==
    /\ stack' = Append(Append(Callers, cont), Frame(callee, off))
    /\ ret' = "-"
    /\ offset' = off
    /\ stream' = strm
    /\ UNCHANGED <<input, status, result>>

\* a panic (todo!, or a slice out of range) unwinds out of parse
Abort(off, strm) ==
    /\ status' = "panic"
    /\ ret' = "-"
    /\ offset' = off
    /\ stream' = strm
    /\ UNCHANGED <<input, stack, result>>

PathTags == {"C", "M", "X", "Y", "N", "I"}

TipeTags == {"A", "S", "T", "R", "Q", "P", "O", "F", "D", "B"}

\* parse is called with a symbol
ParseCall(inputs) ==
    /\ input \in inputs
    /\ stream = <<>>
    /\ offset = 0
    /\ depth = 0
    /\ stack = <<>>
    /\ ret = "-"
    /\ status = "called"
    /\ result = "-"

\* parse, lines 10-12
ParseNonAscii ==
    /\ status = "called"
    /\ NonAscii \in Range(input)
    /\ status' = "returned"
    /\ result' = "none"
    /\ UNCHANGED <<input, stream, offset, depth, stack, ret>>
    /\ UNCHANGED <<sweepVars, loadVars>>

\* parse, lines 14-15: Parser::new and the call of path
ParseStart ==
    /\ status = "called"
    /\ NonAscii \notin Range(input)
    /\ status' = "running"
    /\ stack' = <<Frame("path", 0)>>
    /\ UNCHANGED <<input, stream, offset, depth, ret, result>>
    /\ UNCHANGED <<sweepVars, loadVars>>

\* parse, lines 15-18: the value of parser.path() is dropped, the stream is returned
ParseReturn ==
    /\ status = "running"
    /\ stack = <<>>
    /\ status' = "returned"
    /\ result' = "some"
    /\ UNCHANGED <<input, stream, offset, depth, stack, ret>>
    /\ UNCHANGED <<sweepVars, loadVars>>

\* path, lines 215-217
PathDepthExceeded ==
    /\ At("path", "enter")
    /\ depth > MAX_DEPTH
    /\ Finish("none", offset, stream)
    /\ UNCHANGED depth
    /\ UNCHANGED <<sweepVars, loadVars>>

\* path, lines 221 and 313: no byte left, or a byte that is no path tag
PathNoTag ==
    /\ Entering("path")
    /\ Peek(offset) \notin PathTags
    /\ depth' = depth + 1
    /\ Finish("none", offset, stream)
    /\ UNCHANGED <<sweepVars, loadVars>>

\* path, lines 223-229: crate root
PathCrate ==
    /\ Entering("path")
    /\ Peek(offset) = "C"
    /\ depth' = depth + 1
    /\ LET d == Disambiguator(offset + 1)
           ident == Ident(d.off)
       IN  IF d.st = "panic" THEN Abort(d.off, stream)
           ELSE IF ident.st = "panic" THEN Abort(ident.off, stream)
           ELSE IF ident.st = "none" THEN Finish("none", ident.off, stream)
           ELSE Finish("some", ident.off, Push(stream, ident.val, "PURPLE"))
    /\ UNCHANGED <<sweepVars, loadVars>>

\* path, lines 231-235 and 241-245: inherent impl and trait impl, up to the first path()
PathImpl ==
    /\ Entering("path")
    /\ Peek(offset) \in {"M", "X"}
    /\ depth' = depth + 1
    /\ LET d == Disambiguator(offset + 1)
           cont == [Top EXCEPT !.pc = IF Peek(offset) = "M" THEN "M1" ELSE "X1"]
       IN  IF d.st = "panic" THEN Abort(d.off, stream)
           ELSE Call("path", cont, d.off, stream)
    /\ UNCHANGED <<sweepVars, loadVars>>

\* path, lines 235-237
PathM1 ==
    /\ At("path", "M1")
    /\ IF ret = "none" THEN Finish("none", offset, stream)
       ELSE Call("tipe", [Top EXCEPT !.pc = "M2"], offset, Push(stream, <<"<">>, "BLUE"))
    /\ UNCHANGED depth
    /\ UNCHANGED <<sweepVars, loadVars>>

\* path, lines 237-238 and 257-258: the closing bracket of M and Y
PathClose ==
    /\ At("path", "M2") \/ At("path", "Y2")
    /\ IF ret = "none" THEN Finish("none", offset, stream)
       ELSE Finish("some", offset, Push(stream, <<">">>, "BLUE"))
    /\ UNCHANGED depth
    /\ UNCHANGED <<sweepVars, loadVars>>

\* path, lines 245-246
PathX1 ==
    /\ At("path", "X1")
    /\ IF ret = "none" THEN Finish("none", offset, stream)
       ELSE Call("tipe", [Top EXCEPT !.pc = "X2"], offset, stream)
    /\ UNCHANGED depth
    /\ UNCHANGED <<sweepVars, loadVars>>

\* path, lines 246-248 and 255-257: " as " and the trait path of X and Y
PathAs ==
    /\ At("path", "X2") \/ At("path", "Y1")
    /\ IF ret = "none" THEN Finish("none", offset, stream)
       ELSE Call("path", [Top EXCEPT !.pc = IF Top.pc = "X2" THEN "X3" ELSE "Y2"],
                 offset, Push(stream, <<" ", "a", "s", " ">>, "BLUE"))
    /\ UNCHANGED depth
    /\ UNCHANGED <<sweepVars, loadVars>>

\* path, line 248
PathX3 ==
    /\ At("path", "X3")
    /\ Finish(ret, offset, stream)
    /\ UNCHANGED depth
    /\ UNCHANGED <<sweepVars, loadVars>>

\* path, lines 251-255: trait definition
PathTraitDef ==
    /\ Entering("path")
    /\ Peek(offset) = "Y"
    /\ depth' = depth + 1
    /\ Call("tipe", [Top EXCEPT !.pc = "Y1"], offset + 1, Push(stream, <<"<">>, "BLUE"))
    /\ UNCHANGED <<sweepVars, loadVars>>

\* path, lines 261-266: nested path, up to the inner path()
PathNested ==
    /\ Entering("path")
    /\ Peek(offset) = "N"
    /\ depth' = depth + 1
    /\ LET ns == Namespace(offset + 1)
           d == Disambiguator(ns.off)
       IN  IF ns.st = "none" THEN Finish("none", ns.off, stream)
           ELSE IF d.st = "panic" THEN Abort(d.off, stream)
           ELSE Call("path", [Top EXCEPT !.pc = "N1", !.ns = ns.val], d.off, stream)
    /\ UNCHANGED <<sweepVars, loadVars>>

\* lines 269-284: the tokens of a nested path's name
NestedName(strm, ns, ident) ==
    LET sep == Push(strm, <<":", ":">>, "GRAY")
    IN  IF ns = "Closure"
        THEN LET open == Push(sep, <<"{", "c", "l", "o", "s", "u", "r", "e">>, "GRAY")
                 name == IF ident /= <<>>
                         THEN Push(Push(open, <<":">>, "GRAY"), ident, "GRAY")
                         ELSE open
             IN  Push(name, <<"}">>, "GRAY")
        ELSE Push(sep, ident, "PURPLE")

\* path, lines 266-285
PathN1 ==
    /\ At("path", "N1")
    /\ LET ident == Ident(offset)
       IN  IF ret = "none" THEN Finish("none", offset, stream)
           ELSE IF ident.st = "panic" THEN Abort(ident.off, stream)
           ELSE IF ident.st = "none" THEN Finish("none", ident.off, stream)
           ELSE Finish("some", ident.off, NestedName(stream, Top.ns, ident.val))
    /\ UNCHANGED depth
    /\ UNCHANGED <<sweepVars, loadVars>>

\* path, lines 287-292: generic args, up to the path()
PathGeneric ==
    /\ Entering("path")
    /\ Peek(offset) = "I"
    /\ depth' = depth + 1
    /\ Call("path",
            [Top EXCEPT !.pc = "I1", !.next_is_type = (PeekSlice2(offset + 1) = <<"N", "t">>)],
            offset + 1, stream)
    /\ UNCHANGED <<sweepVars, loadVars>>

\* path, lines 302-311: the loop over the generic arguments, from its head
GenericLoop(f, off, strm) ==
    IF Consume(off, "E")
    THEN Finish("some", off + 1, Push(strm, <<">">>, "BLUE"))
    ELSE Call("generic", [f EXCEPT !.pc = "I3"], off,
              IF f.iters /= 0 THEN Push(strm, <<",", " ">>, "BLUE") ELSE strm)

\* path, lines 292-302
PathI1 ==
    /\ At("path", "I1")
    /\ IF ret = "none" THEN Finish("none", offset, stream)
       ELSE LET sep == IF Top.next_is_type THEN stream ELSE Push(stream, <<":", ":">>, "GRAY")
            IN  GenericLoop([Top EXCEPT !.iters = 0], offset, Push(sep, <<"<">>, "BLUE"))
    /\ UNCHANGED depth
    /\ UNCHANGED <<sweepVars, loadVars>>

\* PathI3 with the iters += 1 of line 310 missing
PathI3NoCount ==
    /\ At("path", "I3")
    /\ IF ret = "none" THEN Finish("none", offset, stream)
       ELSE GenericLoop([Top EXCEPT !.iters = 0], offset, stream)
    /\ UNCHANGED depth
    /\ UNCHANGED <<sweepVars, loadVars>>

\* path, lines 307-309
PathI3 ==
    /\ At("path", "I3")
    /\ IF ret = "none" THEN Finish("none", offset, stream)
       ELSE GenericLoop([Top EXCEPT !.iters = 1], offset, stream)
    /\ UNCHANGED depth
    /\ UNCHANGED <<sweepVars, loadVars>>

\* tipe, lines 320-322
TipeDepthExceeded ==
    /\ At("tipe", "enter")
    /\ depth > MAX_DEPTH
    /\ Finish("none", offset, stream)
    /\ UNCHANGED depth
    /\ UNCHANGED <<sweepVars, loadVars>>

\* tipe, line 326: no byte left
TipeEnd ==
    /\ Entering("tipe")
    /\ Peek(offset) = ""
    /\ depth' = depth + 1
    /\ Finish("none", offset, stream)
    /\ UNCHANGED <<sweepVars, loadVars>>

\* TipeBasic with the self.depth += 1 of line 324 after the early return
TipeBasicUncounted ==
    /\ Entering("tipe")
    /\ BasicTipe(Peek(offset)) /= <<>>
    /\ depth' = depth
    /\ Finish("some", offset + 1, Push(stream, BasicTipe(Peek(offset)), "PURPLE"))
    /\ UNCHANGED <<sweepVars, loadVars>>

\* tipe, lines 329-332: basic types
TipeBasic ==
    /\ Entering("tipe")
    /\ BasicTipe(Peek(offset)) /= <<>>
    /\ depth' = depth + 1
    /\ Finish("some", offset + 1, Push(stream, BasicTipe(Peek(offset)), "PURPLE"))
    /\ UNCHANGED <<sweepVars, loadVars>>

\* tipe, line 335: named type, the call of path
TipeNamed ==
    /\ Entering("tipe")
    /\ Peek(offset) /= ""
    /\ BasicTipe(Peek(offset)) = <<>>
    /\ depth' = depth + 1
    /\ Call("path", [Top EXCEPT !.pc = "T1", !.prefix = Peek(offset)], offset, stream)
    /\ UNCHANGED <<sweepVars, loadVars>>

\* tipe, lines 335-337: the path was parsed
TipePathOk ==
    /\ At("tipe", "T1")
    /\ ret = "some"
    /\ Finish("some", offset, stream)
    /\ UNCHANGED depth
    /\ UNCHANGED <<sweepVars, loadVars>>

\* the path failed and the match of line 339 is on tag
Matching(tag) == At("tipe", "T1") /\ ret = "none" /\ Top.prefix = tag

\* tipe, line 462: no type tag
TipeNoTag ==
    /\ At("tipe", "T1")
    /\ ret = "none"
    /\ Top.prefix \notin TipeTags
    /\ Finish("none", offset, stream)
    /\ UNCHANGED depth
    /\ UNCHANGED <<sweepVars, loadVars>>

\* tipe, lines 341-343 and 349-351: array and slice, up to the element type
TipeArrayOrSlice ==
    /\ Matching("A") \/ Matching("S")
    /\ Call("tipe", [Top EXCEPT !.pc = IF Top.prefix = "A" THEN "A1" ELSE "S1"],
            offset, Push(stream, <<"[">>, "BLUE"))
    /\ UNCHANGED depth
    /\ UNCHANGED <<sweepVars, loadVars>>

\* tipe, lines 343-346 and 351-352: after the element type
TipeElement ==
    /\ At("tipe", "A1") \/ At("tipe", "S1")
    /\ IF ret = "none" THEN Finish("none", offset, stream)
       ELSE IF Top.pc = "S1" THEN Finish("some", offset, Push(stream, <<"]">>, "BLUE"))
       ELSE LET sep == Push(stream, <<";", " ">>, "BLUE")
                c == Constant(offset)
            IN  IF c.st = "none" THEN Finish("none", c.off, sep)
                ELSE Finish("some", c.off, Push(sep, <<"]">>, "BLUE"))
    /\ UNCHANGED depth
    /\ UNCHANGED <<sweepVars, loadVars>>

\* tipe, lines 359-368: the loop over the tuple's elements, from its head
TupleLoop(f, off, strm) ==
    IF Consume(off, "E")
    THEN Finish("some", off + 1, Push(strm, <<")">>, "BLUE"))
    ELSE Call("tipe", [f EXCEPT !.pc = "T3"], off,
              IF f.iters /= 0 THEN Push(strm, <<",", " ">>, "BLUE") ELSE strm)

\* tipe, lines 355-364: tuple
TipeTuple ==
    /\ Matching("T")
    /\ TupleLoop([Top EXCEPT !.iters = 0], offset, Push(stream, <<"(">>, "BLUE"))
    /\ UNCHANGED depth
    /\ UNCHANGED <<sweepVars, loadVars>>

\* tipe, lines 364-365: the value of self.tipe() is dropped
TipeT3 ==
    /\ At("tipe", "T3")
    /\ TupleLoop([Top EXCEPT !.iters = 1], offset, stream)
    /\ UNCHANGED depth
    /\ UNCHANGED <<sweepVars, loadVars>>

\* tipe, lines 371-374 and 377-380: references
TipeRef ==
    /\ Matching("R") \/ Matching("Q")
    /\ LET amp == Push(stream, IF Top.prefix = "R" THEN <<"&">> ELSE <<"&", "m", "u", "t", " ">>, "BLUE")
           l == Lifetime(offset)
       IN  IF l.st = "none" THEN Finish("none", l.off, amp)
           ELSE Call("tipe", [Top EXCEPT !.pc = "R1"], l.off,
                     IF l.val THEN Push(amp, <<"'", "_">>, "MAGENTA") ELSE amp)
    /\ UNCHANGED depth
    /\ UNCHANGED <<sweepVars, loadVars>>

\* tipe, lines 383-385 and 388-390: raw pointers
TipePtr ==
    /\ Matching("P") \/ Matching("O")
    /\ Call("tipe", [Top EXCEPT !.pc = "R1"], offset,
            Push(stream, IF Top.prefix = "P" THEN <<"*", "c", "o", "n", "s", "t", " ">> ELSE <<"*", "m", "u", "t", " ">>, "BLUE"))
    /\ UNCHANGED depth
    /\ UNCHANGED <<sweepVars, loadVars>>

\* tipe, lines 374, 380, 385, 390 and 428: the last self.tipe()? of an arm
TipeLast ==
    /\ At("tipe", "R1")
    /\ Finish(ret, offset, stream)
    /\ UNCHANGED depth
    /\ UNCHANGED <<sweepVars, loadVars>>

\* tipe, lines 418-428: the loop over the parameters, from its head, and the return type
ParamLoop(f, off, strm) ==
    IF Consume(off, "E")
    THEN Call("tipe", [f EXCEPT !.pc = "R1"], off + 1, Push(strm, <<" ", "-", ">", " ">>, "BLUE"))
    ELSE Call("tipe", [f EXCEPT !.pc = "F1"], off,
              IF f.iters /= 0 THEN Push(strm, <<",", " ">>, "BLUE") ELSE strm)

\* tipe, lines 393-423: function pointer, up to the first parameter
TipeFn ==
    /\ Matching("F")
    /\ LET b == Binder(offset)
           u == Consume(b.off, "U")
           o1 == IF u THEN b.off + 1 ELSE b.off
           s1 == IF u THEN Push(stream, <<"u", "n", "s", "a", "f", "e", " ">>, "RED") ELSE stream
           k == Consume(o1, "K")
           o2 == IF k THEN o1 + 1 ELSE o1
           s2 == IF k THEN Push(s1, <<"e", "x", "t", "e", "r", "n", " ">>, "RED") ELSE s1
           c == k /\ Consume(o2, "C")
           ident == Ident(o2)
           q == Push(s2, <<"\"">>, "BLUE")
           o3 == IF ~k THEN o2 ELSE IF c THEN o2 + 1 ELSE ident.off
           s3 == IF ~k THEN s2
                 ELSE IF c THEN Push(s2, <<"\"", "C", "\"">>, "BLUE")
                 ELSE Push(Push(q, ident.val, "BLUE"), <<"\"">>, "BLUE")
           fn == Push(Push(s3, <<"f", "n">>, "MAGENTA"), <<"(">>, "WHITE")
       IN  IF k /\ ~c /\ ident.st = "panic" THEN Abort(ident.off, s2)
           ELSE IF k /\ ~c /\ ident.st = "none" THEN Finish("none", ident.off, s2)
           ELSE ParamLoop([Top EXCEPT !.iters = 0], o3, fn)
    /\ UNCHANGED depth
    /\ UNCHANGED <<sweepVars, loadVars>>

\* tipe, lines 423-424: the value of self.tipe() is dropped
TipeF1 ==
    /\ At("tipe", "F1")
    /\ ParamLoop([Top EXCEPT !.iters = 1], offset, stream)
    /\ UNCHANGED depth
    /\ UNCHANGED <<sweepVars, loadVars>>

\* tipe, lines 437-442: the loop over the traits, from its head
TraitLoop(f, off, strm) ==
    IF Consume(off, "E")
    THEN Finish("some", off + 1, strm)
    ELSE Call("path", [f EXCEPT !.pc = "D1"], off,
              IF f.iters /= 0 THEN Push(strm, <<" ", "+", " ">>, "BLUE") ELSE strm)

\* tipe, lines 445-454: the loop over the associated type bounds, from its head
BoundLoop(f, off, strm) ==
    IF Consume(off, "p")
    THEN LET ident == Ident(off + 1)
             lt == Push(strm, <<"<">>, "BLUE")
         IN  IF ident.st = "panic" THEN Abort(ident.off, lt)
             ELSE IF ident.st = "none" THEN Finish("none", ident.off, lt)
             ELSE Call("tipe", [f EXCEPT !.pc = "D2"], ident.off,
                       Push(Push(lt, ident.val, "PURPLE"), <<" ", "=", " ">>, "WHITE"))
    ELSE TraitLoop([f EXCEPT !.iters = 1], off, strm)

\* tipe, lines 431-442: trait object, up to the first trait path
TipeDyn ==
    /\ Matching("D")
    /\ LET b == Binder(offset)
       IN  TraitLoop([Top EXCEPT !.iters = 0], b.off, Push(stream, <<"d", "y", "n", " ">>, "RED"))
    /\ UNCHANGED depth
    /\ UNCHANGED <<sweepVars, loadVars>>

\* tipe, lines 442-451: after a trait path, after the type of a bound
TipeDynResume ==
    /\ At("tipe", "D1") \/ At("tipe", "D2")
    /\ IF ret = "none" THEN Finish("none", offset, stream)
       ELSE IF Top.pc = "D1" THEN BoundLoop(Top, offset, stream)
       ELSE BoundLoop(Top, offset, Push(stream, <<">">>, "BLUE"))
    /\ UNCHANGED depth
    /\ UNCHANGED <<sweepVars, loadVars>>

\* tipe, lines 457-461: backreference
TipeBackref ==
    /\ Matching("B")
    /\ LET backref == Base62(offset)
       IN  IF backref.st = "none" THEN Finish("none", backref.off, stream)
           ELSE Abort(backref.off, stream)
    /\ UNCHANGED depth
    /\ UNCHANGED <<sweepVars, loadVars>>

\* generic, lines 149-153
GenericEnter ==
    /\ At("generic", "enter")
    /\ LET l == Lifetime(offset)
       IN  IF l.st = "some"
           THEN Finish("some", l.off,
                       IF l.val THEN Push(stream, <<"'", "_">>, "MAGENTA") ELSE stream)
           ELSE Call("tipe", [Top EXCEPT !.pc = "G1"], l.off, stream)
    /\ UNCHANGED depth
    /\ UNCHANGED <<sweepVars, loadVars>>

\* generic, lines 153-162
GenericG1 ==
    /\ At("generic", "G1")
    /\ IF ret = "some" THEN Finish("some", offset, stream)
       ELSE IF Consume(offset, "K")
       THEN LET c == Constant(offset + 1)
            IN  Finish(c.st, c.off, stream)
       ELSE Finish("none", offset, stream)
    /\ UNCHANGED depth
    /\ UNCHANGED <<sweepVars, loadVars>>

ParseNext ==
    \/ ParseNonAscii
    \/ ParseStart
    \/ ParseReturn
    \/ PathDepthExceeded
    \/ PathNoTag
    \/ PathCrate
    \/ PathImpl
    \/ PathM1
    \/ PathClose
    \/ PathX1
    \/ PathAs
    \/ PathX3
    \/ PathTraitDef
    \/ PathNested
    \/ PathN1
    \/ PathGeneric
    \/ PathI1
    \/ PathI3
    \/ TipeDepthExceeded
    \/ TipeEnd
    \/ TipeBasic
    \/ TipeNamed
    \/ TipePathOk
    \/ TipeNoTag
    \/ TipeArrayOrSlice
    \/ TipeElement
    \/ TipeTuple
    \/ TipeT3
    \/ TipeRef
    \/ TipePtr
    \/ TipeLast
    \/ TipeFn
    \/ TipeF1
    \/ TipeDyn
    \/ TipeDynResume
    \/ TipeBackref
    \/ GenericEnter
    \/ GenericG1

----------------------------------------------------------------------------
(* The symbols parse is called with *)

\* longest symbol among the enumerated ones
MaxInputLen == 3

\* the bytes the enumerated symbols are made of
Alphabet == {"C", "N", "I", "Y", "T", "E", "B", "s", "u", "b", "_", "0", "1", NonAscii}

Words(n) == UNION {[1..k -> Alphabet] : k \in 0..n}

\* the symbols of the tests (lines 483-582)
TestInputs == {
    <<"C", "8", "d", "e", "m", "a", "n", "g", "l", "e">>,
    <<"I", "N", "v", "N", "v", "C", "3", "s", "t", "d", "3", "m", "e", "m", "8", "a", "l", "i", "g", "n", "_", "o", "f", "j", "d", "E">>,
    <<"I", "N", "v", "N", "t", "C", "3", "s", "t", "d", "3", "m", "e", "m", "8", "a", "l", "i", "g", "n", "_", "o", "f", "I", "N", "t", "C", "3", "w", "o", "w", "6", "H", "o", "l", "d", "e", "r", "p", "E", "E">>,
    <<"N", "v", "C", "4", "b", "i", "t", "e", "6", "d", "e", "c", "o", "d", "e">>,
    <<"N", "v", "N", "v", "C", "4", "b", "i", "t", "e", "6", "d", "e", "c", "o", "d", "e", "6", "x", "8", "6", "_", "6", "4">>,
    <<"I", "N", "v", "N", "v", "C", "4", "b", "i", "t", "e", "6", "d", "e", "c", "o", "d", "e", "6", "x", "8", "6", "_", "6", "4", "N", "v", "C", "3", "l", "o", "l", "4", "d", "a", "m", "n", "E">>,
    <<"N", "v", "N", "v", "X", "s", "2", "_", "C", "7", "m", "y", "c", "r", "a", "t", "e", "I", "N", "t", "C", "7", "m", "y", "c", "r", "a", "t", "e", "3", "F", "o", "o", "p", "E", "I", "N", "t", "N", "t", "C", "3", "s", "t", "d", "7", "c", "o", "n", "v", "e", "r", "t", "4", "F", "r", "o", "m", "p", "E", "4", "f", "r", "o", "m", "3", "M", "S", "G">>,
    <<"I", "N", "v", "C", "4", "b", "i", "t", "e", "6", "d", "e", "c", "o", "d", "e", "R", "L", "_", "e", "E">>,
    <<"I", "N", "v", "C", "4", "b", "i", "t", "e", "6", "d", "e", "c", "o", "d", "e", "R", "L", "0", "_", "e", "E">>,
    <<"I", "N", "v", "C", "4", "b", "i", "t", "e", "6", "d", "e", "c", "o", "d", "e", "Q", "L", "_", "e", "E">>,
    <<"I", "N", "v", "C", "4", "b", "i", "t", "e", "6", "d", "e", "c", "o", "d", "e", "Q", "L", "0", "_", "e", "E">>,
    <<"I", "N", "v", "C", "4", "b", "i", "t", "e", "6", "d", "e", "c", "o", "d", "e", "P", "e", "E">>,
    <<"I", "N", "v", "C", "4", "b", "i", "t", "e", "6", "d", "e", "c", "o", "d", "e", "O", "e", "E">>,
    <<"I", "N", "v", "C", "4", "b", "i", "t", "e", "6", "d", "e", "c", "o", "d", "e", "A", "N", "t", "N", "v", "C", "3", "s", "t", "d", "5", "a", "r", "r", "a", "y", "5", "A", "r", "r", "a", "y", "j", "f", "_", "E">>,
    <<"I", "N", "v", "N", "t", "C", "3", "s", "t", "d", "3", "m", "e", "m", "8", "a", "l", "i", "g", "n", "_", "o", "f", "j", "T", "d", "d", "N", "v", "C", "4", "c", "o", "r", "e", "3", "p", "t", "r", "E", "E">>,
    <<"I", "N", "v", "N", "t", "C", "3", "s", "t", "d", "3", "m", "e", "m", "8", "a", "l", "i", "g", "n", "_", "o", "f", "F", "U", "K", "C", "3", "r", "u", "n", "d", "d", "d", "E", "o", "E">>,
    <<"I", "N", "v", "N", "t", "C", "4", "c", "o", "r", "e", "4", "s", "i", "m", "d", "3", "m", "u", "l", "D", "N", "v", "N", "t", "C", "4", "c", "o", "r", "e", "3", "m", "e", "m", "4", "R", "e", "a", "d", "p", "4", "I", "t", "e", "m", "R", "e", "E", "L", "_", "E">>,
    <<"N", "C", "N", "v", "C", "4", "b", "i", "t", "e", "6", "d", "e", "c", "o", "d", "e", "s", "_", "0">>,
    <<"N", "C", "N", "v", "C", "4", "b", "i", "t", "e", "6", "d", "e", "c", "o", "d", "e", "s", "0", "_">>,
    <<"N", "C", "N", "v", "C", "4", "b", "i", "t", "e", "6", "d", "e", "c", "o", "d", "e", "s", "0", "_", "3", "w", "o", "w">>}

\* n nested paths around a crate root, every identifier "b": "NvNv..C1b1b..1b"
DeepPath(n) ==
    [i \in 1..(4 * n + 3) |->
        IF i = 2 * n + 1 THEN "C"
        ELSE IF i <= 2 * n THEN (IF i % 2 = 1 THEN "N" ELSE "v")
        ELSE IF i % 2 = 0 THEN "1" ELSE "b"]

\* symbols that reach the remaining productions
MoreInputs == {
    <<"M", "C", "0", "b">>,
    <<"X", "C", "0", "b", "C", "1", "x">>,
    <<"Y", "b", "C", "0">>,
    <<"I", "C", "0", "L", "_", "L", "0", "_", "b", "E">>,
    <<"I", "C", "0", "K", "E">>,
    <<"M", "C", "0", "S">>,
    <<"C", "s", "X", "z", "z", "z", "z", "_">>,
    <<"C", "9", "9", "9", "9", "9", "9", "x">>,
    <<"N", "S", "C", "1", "b", "2", "_", "_", "b">>,
    <<"I", "C", "0", "E">>,
    <<"C", "s", "_", "1", "b">>,
    <<"C", "s", "1", "_", "1", "b">>,
    <<"C", "s", "1", "2", "_", "1", "b">>,
    <<"I", "N", "t", "C", "1", "a", "1", "b", "N", "v", "C", "1", "c", "1", "d", "I", "N", "t", "C", "1", "e", "1", "f", "y", "E", "b", "E">>,
    [i \in 1..(MAX_DEPTH + 2) |-> "I"],
    DeepPath(MAX_DEPTH),
    DeepPath(MAX_DEPTH + 1)}

Inputs == Words(MaxInputLen) \cup TestInputs \cup MoreInputs

\* no Processor is running
SweepIdle ==
    /\ section_len = 0
    /\ base_addr = 0
    /\ entrypoint = 0
    /\ decoder = [o \in {0} |-> Incomplete]
    /\ overflow_checks = FALSE
    /\ parsed = EmptyMap
    /\ unexplored_data = <<>>
    /\ raw_instructions = <<>>
    /\ pc = "idle"
    /\ attempts = <<>>
    /\ inserted = <<>>
    /\ reenqueued = FALSE

ParseInit == ParseCall(Inputs) /\ SweepIdle /\ LoadIdle

ParseSpec == ParseInit /\ [][ParseNext]_vars

\* parse runs to completion on the calling thread: a step that can be taken is taken
FairParseSpec == ParseSpec /\ WF_vars(ParseNext)

----------------------------------------------------------------------------
(* Disassembly::new *)

\* longest section, and highest base address, of the image loaded
MaxLoadLen == 1

\* Disassembly::new is called on a file
LoadCall ==
    /\ stage = "called"
    /\ env \in Envs
    /\ error = "none"
    /\ show_donut = FALSE
    /\ trail = <<>>
    /\ GuiIdle

\* a step returns Err(kind) through `?`
Fail(step, kind) ==
    /\ stage' = "err"
    /\ error' = kind
    /\ trail' = Append(trail, step)

\* a step succeeds and the next one is `next`
Pass(step, next) ==
    /\ stage' = next
    /\ trail' = Append(trail, step)
    /\ UNCHANGED error

\* lines 53-54
LoadStart ==
    /\ stage = "called"
    /\ stage' = "read"
    /\ show_donut' = TRUE
    /\ UNCHANGED <<env, error, trail>>
    /\ UNCHANGED <<sweepVars, parseVars, guiVars>>

\* line 56: std::fs::read
LoadRead ==
    /\ stage = "read"
    /\ IF env.read THEN Pass("read", "parse") ELSE Fail("read", "ReadFailed")
    /\ UNCHANGED <<env, show_donut>>
    /\ UNCHANGED <<sweepVars, parseVars, guiVars>>

\* line 57: object::File::parse
LoadParse ==
    /\ stage = "parse"
    /\ IF env.parse THEN Pass("parse", "section") ELSE Fail("parse", "IncompleteObject")
    /\ UNCHANGED <<env, show_donut>>
    /\ UNCHANGED <<sweepVars, parseVars, guiVars>>

\* lines 59-64: the text section that contains the entrypoint; t.address() + t.size()
\* is a plain + and panics on overflow in a build with overflow checks
LoadSection ==
    /\ stage = "section"
    /\ IF env.range_overflow /\ overflow_checks
       THEN /\ stage' = "panic"
            /\ trail' = Append(trail, "section")
            /\ UNCHANGED error
       ELSE IF env.section THEN Pass("section", "decompress")
       ELSE Fail("section", "NoEntrypoint")
    /\ UNCHANGED <<env, show_donut>>
    /\ UNCHANGED <<sweepVars, parseVars, guiVars>>

\* lines 66-69: section.uncompressed_data
LoadDecompress ==
    /\ stage = "decompress"
    /\ IF env.decompress THEN Pass("decompress", "debug")
       ELSE Fail("decompress", "DecompressionFailed")
    /\ UNCHANGED <<env, show_donut>>
    /\ UNCHANGED <<sweepVars, parseVars, guiVars>>

\* LoadDebug with the `?` of line 74 missing
LoadDebugUnchecked ==
    /\ stage = "debug"
    /\ Pass("debug", "imports")
    /\ UNCHANGED <<env, show_donut>>
    /\ UNCHANGED <<sweepVars, parseVars, guiVars>>

\* lines 71-74: symbols.parse_debug
LoadDebug ==
    /\ stage = "debug"
    /\ IF env.debug THEN Pass("debug", "imports")
       ELSE Fail("debug", "IncompleteSymbolTable")
    /\ UNCHANGED <<env, show_donut>>
    /\ UNCHANGED <<sweepVars, parseVars, guiVars>>

\* lines 76-86: symbols.parse_imports, on a PE file only, with the headers of
\* the file's word size
LoadImports ==
    /\ stage = "imports"
    /\ IF env.format /= "Pe"
       THEN /\ stage' = "arch"
            /\ UNCHANGED <<error, trail>>
       ELSE IF env.imports THEN Pass("imports", "arch")
       ELSE Fail("imports", "IncompleteImportTable")
    /\ UNCHANGED <<env, show_donut>>
    /\ UNCHANGED <<sweepVars, parseVars, guiVars>>

\* lines 88-133, up to Processor::new: the section found contains the
\* entrypoint, so section_base <= obj.entry()
LoadProcessor ==
    /\ stage = "arch"
    /\ env.arch \in Supported
    /\ Pass("arch", "recurse")
    /\ section_len' \in 0..MaxLoadLen
    /\ base_addr' \in 0..MaxLoadLen
    /\ entrypoint' \in base_addr'..(base_addr' + MaxLoadLen)
    /\ decoder' \in Decoders(section_len')
    /\ pc' = "new"
    /\ UNCHANGED <<env, show_donut>>
    /\ UNCHANGED <<overflow_checks, parsed, unexplored_data, raw_instructions,
                   attempts, inserted, reenqueued, parseVars, guiVars>>

\* line 134
LoadUnknownArchitecture ==
    /\ stage = "arch"
    /\ env.arch \notin Supported
    /\ Fail("arch", "UnknownArchitecture")
    /\ UNCHANGED <<env, show_donut>>
    /\ UNCHANGED <<sweepVars, parseVars, guiVars>>

\* lines 137-142: proc.recurse returned, Ok(Self { .. })
LoadOk ==
    /\ stage = "recurse"
    /\ pc = "done"
    /\ stage' = "ok"
    /\ UNCHANGED <<env, error, show_donut, trail>>
    /\ UNCHANGED <<sweepVars, parseVars, guiVars>>

LoadNext ==
    \/ LoadStart
    \/ LoadRead
    \/ LoadParse
    \/ LoadSection
    \/ LoadDecompress
    \/ LoadDebug
    \/ LoadImports
    \/ LoadProcessor
    \/ LoadUnknownArchitecture
    \/ SweepNext
    \/ LoadOk

\* no Processor exists yet; the build profile is fixed
LoadInit ==
    /\ LoadCall
    /\ section_len = 0
    /\ base_addr = 0
    /\ entrypoint = 0
    /\ decoder = [o \in {0} |-> Incomplete]
    /\ overflow_checks \in BOOLEAN
    /\ parsed = EmptyMap
    /\ unexplored_data = <<>>
    /\ raw_instructions = <<>>
    /\ pc = "idle"
    /\ attempts = <<>>
    /\ inserted = <<>>
    /\ reenqueued = FALSE
    /\ ParserIdle

LoadSpec == LoadInit /\ [][LoadNext]_vars

----------------------------------------------------------------------------
(* Backend::redraw, and the RenderContext it draws.  The load runs on its   *)
(* own task beside the thread that redraws, so their steps interleave.  The *)
(* RenderContext is borrowed mutably for the length of a redraw, so nothing *)
(* else of the redrawing thread touches it while a redraw runs.             *)

\* furthest the listing is scrolled, in pixels
MaxScroll == 4

\* greatest height of the window, in pixels
MaxHeight == 3

\* greatest ctx.font_size, in pixels
MaxFontSize == 2

\* greatest ctx.scale_factor
MaxScale == 2

\* the smaller of two numbers
Min(a, b) == IF a <= b THEN a ELSE b

\* (a / b).ceil() as usize, for a >= 0 and b > 0
CeilDiv(a, b) == (a + b - 1) \div b

\* the number of entries of the table, which is what its iterator yields
TableSize == Cardinality(DOMAIN parsed)

\* line 306: (ctx.listing_offset / ctx.font_size) as usize; the cast takes a
\* negative quotient to 0
LinesScrolled(font) == IF listing_offset <= 0 THEN 0 ELSE listing_offset \div font

\* lines 311-315: what .skip(lines_scrolled).take(ceil(height / font_size))
\* leaves of the table's iterator
RowsShown(height, font, scale) ==
    Min(IF TableSize >= LinesScrolled(font) THEN TableSize - LinesScrolled(font) ELSE 0,
        CeilDiv(height, scale * font))

\* the disassembly a finished load returned is put in ctx.dissasembly
Install ==
    /\ redraw = "idle"
    /\ stage = "ok"
    /\ dissasembly = "none"
    /\ dissasembly' = "some"
    /\ UNCHANGED <<listing_offset, redraw, rows>>
    /\ UNCHANGED <<stage, env, error, show_donut, trail>>
    /\ UNCHANGED <<sweepVars, parseVars>>

\* the listing is scrolled
Scroll ==
    /\ redraw = "idle"
    /\ listing_offset' \in (-1)..MaxScroll
    /\ listing_offset' /= listing_offset
    /\ UNCHANGED <<dissasembly, redraw, rows>>
    /\ UNCHANGED <<stage, env, error, show_donut, trail>>
    /\ UNCHANGED <<sweepVars, parseVars>>

\* lines 233-292: without a frame to draw on, Err(DrawTexture); with one, the
\* fps text is queued, and while the flag is set the listing goes back to its
\* top and the donut is queued
RedrawBegin ==
    /\ redraw = "idle"
    /\ \E frame \in BOOLEAN :
          IF frame
          THEN /\ redraw' = "queued"
               /\ listing_offset' = IF show_donut THEN 0 ELSE listing_offset
               /\ UNCHANGED <<dissasembly, rows>>
               /\ UNCHANGED <<stage, env, error, show_donut, trail>>
               /\ UNCHANGED <<sweepVars, parseVars>>
          ELSE UNCHANGED vars

\* lines 295-304, draw_queued fails: Err(DrawText)
RedrawAbort ==
    /\ redraw = "queued"
    /\ redraw' = "idle"
    /\ UNCHANGED <<listing_offset, dissasembly, rows>>
    /\ UNCHANGED <<stage, env, error, show_donut, trail>>
    /\ UNCHANGED <<sweepVars, parseVars>>

\* RedrawListing with the store of line 319 before the loop of line 318
RedrawListingClears ==
    /\ redraw = "queued"
    /\ redraw' = "rows"
    /\ IF dissasembly = "some"
       THEN /\ \E height \in 0..MaxHeight, font \in 1..MaxFontSize, scale \in 1..MaxScale :
                  rows' = RowsShown(height, font, scale)
            /\ show_donut' = FALSE
       ELSE rows' = 0 /\ UNCHANGED show_donut
    /\ UNCHANGED <<listing_offset, dissasembly>>
    /\ UNCHANGED <<stage, env, error, trail>>
    /\ UNCHANGED <<sweepVars, parseVars>>

\* lines 295-315, draw_queued succeeds: the rows of the table that fit the
\* window, from the line scrolled to; none without a disassembly
RedrawListing ==
    /\ redraw = "queued"
    /\ redraw' = "rows"
    /\ IF dissasembly = "some"
       THEN \E height \in 0..MaxHeight, font \in 1..MaxFontSize, scale \in 1..MaxScale :
               rows' = RowsShown(height, font, scale)
       ELSE rows' = 0
    /\ UNCHANGED <<listing_offset, dissasembly>>
    /\ UNCHANGED <<stage, env, error, show_donut, trail>>
    /\ UNCHANGED <<sweepVars, parseVars>>

\* lines 318-319 and the rest of the loop body: one row is rendered
RedrawRow ==
    /\ redraw = "rows"
    /\ rows > 0
    /\ show_donut' = FALSE
    /\ rows' = rows - 1
    /\ UNCHANGED <<listing_offset, dissasembly, redraw>>
    /\ UNCHANGED <<stage, env, error, trail>>
    /\ UNCHANGED <<sweepVars, parseVars>>

\* the loop ends, the text is drawn and redraw returns
RedrawEnd ==
    /\ redraw = "rows"
    /\ rows = 0
    /\ redraw' = "idle"
    /\ UNCHANGED <<listing_offset, dissasembly, rows>>
    /\ UNCHANGED <<stage, env, error, show_donut, trail>>
    /\ UNCHANGED <<sweepVars, parseVars>>

RedrawNext ==
    \/ RedrawBegin
    \/ RedrawAbort
    \/ RedrawListing
    \/ RedrawRow
    \/ RedrawEnd

GuiNext ==
    \/ LoadNext
    \/ Install
    \/ Scroll
    \/ RedrawNext

\* the file is a 64-bit one, of a supported architecture or of none; nothing
\* the window does depends on which
GuiInit ==
    /\ LoadInit
    /\ env.is_64
    /\ env.arch \in {"X86_64", "Unknown"}

\* one file is loaded while the window, with nothing to show yet, is redrawn
GuiSpec == GuiInit /\ [][GuiNext]_vars

----------------------------------------------------------------------------
(* Properties of parse *)

ParseEnded == status \in {"returned", "panic"}

\* C1: when the top-level path production fails, parse returns no result; a
\* token stream is handed to the caller only when the whole parse succeeded.
C1_AllOrNothing ==
    (status = "returned" /\ result = "some") => ret = "some"

\* C2: parse never panics on an ASCII symbol: it returns a token stream or no
\* result, also for an identifier marked 'u' and for a type tagged 'B'.
C2_NeverPanics ==
    NonAscii \notin Range(input) => status /= "panic"

\* C3: parse halts on every symbol: each call started eventually returns (or
\* aborts), the list loops of 'T', 'F', 'D' and 'I' included.
C3_ParseHalts == <>ParseEnded

\* lines 215-217 and 320-322: the running activation is refused by the depth guard
DepthExceeded ==
    /\ status = "running"
    /\ stack /= <<>>
    /\ Top.fn \in {"path", "tipe"}
    /\ Top.pc = "enter"
    /\ depth > MAX_DEPTH

\* C11: once a path or type production is refused because the nesting is deeper
\* than MAX_DEPTH, the whole parse fails: parse returns no result.
C11_DepthGuardFailsParse ==
    [](DepthExceeded => [](status = "returned" => result = "none"))

\* lines 86-90: base62 stopped at a digit or at the closing '_', so it was a
\* checked_mul or checked_add that returned None
Base62Overflowed(r) ==
    /\ r.st = "none"
    /\ r.off < Len(input)
    /\ (IsBase62(input[r.off + 1]) \/ input[r.off + 1] = "_")

\* lines 227, 234, 244 and 265: the running path production is about to read a
\* disambiguator whose base-62 number overflows
DisambiguatorOverflows ==
    /\ Entering("path")
    /\ LET tag == Peek(offset)
           o == IF tag \in {"C", "M", "X"} THEN offset + 1
                ELSE IF tag = "N" /\ Namespace(offset + 1).st = "some" THEN offset + 2
                ELSE Len(input)
       IN  /\ Consume(o, "s")
           /\ o + 2 <= Len(input)
           /\ Base62Overflowed(Base62(o + 2))

\* C12: when a base-62 number overflows the machine word the parse fails: here
\* for the number of a disambiguator, the top-level path then returns failure.
C12_OverflowFailsParse ==
    [](DisambiguatorOverflows => [](status = "returned" => ret = "none"))

----------------------------------------------------------------------------
(* Properties of the sweep *)

AttemptAddrs == {attempts[k].addr : k \in 1..Len(attempts)}

\* addresses whose decode attempt returned a success or a complete failure
EvaluatedAddrs == {attempts[k].addr : k \in {j \in 1..Len(attempts) : attempts[j].res.complete}}

InWindow(a) == base_addr <= a /\ a < base_addr + section_len

\* C4: the sweep eventually empties the work queue and recurse returns
C4_SweepTerminates == <>(pc = "done")

\* C5: within one run the decoder is invoked at most once per address
C5_NoAddressDecodedTwice ==
    \A j, k \in 1..Len(attempts) : attempts[j].addr = attempts[k].addr => j = k

\* C6: the decoder is invoked only for addresses with base <= address < base + length,
\* and no address outside that window gets a table entry
C6_WindowSafety ==
    /\ \A a \in AttemptAddrs : InWindow(a)
    /\ \A a \in DOMAIN parsed : InWindow(a)

\* C7: each address is inserted into the parsed table at most once
C7_WriteOnce ==
    \A j, k \in 1..Len(inserted) : inserted[j] = inserted[k] => j = k

\* C8: when recurse returns, the table holds exactly the addresses whose decode attempt
\* returned a success (as an instruction entry) or a complete failure (as a failure entry)
C8_FinalTableComplete ==
    pc = "done" =>
        /\ DOMAIN parsed = EvaluatedAddrs
        /\ \A k \in 1..Len(attempts) :
              attempts[k].res.complete =>
                  /\ parsed[attempts[k].addr].ok = attempts[k].res.ok
                  /\ parsed[attempts[k].addr].width = attempts[k].res.width

C8_Witness ==
    /\ pc = "done"
    /\ \E a, b \in DOMAIN parsed : parsed[a].ok /\ ~parsed[b].ok
    /\ \E k \in 1..Len(attempts) :
          /\ ~attempts[k].res.complete
          /\ InWindow(attempts[k].addr)
          /\ attempts[k].addr \notin DOMAIN parsed

\* the successor address line 231 computes
Successor(a, w) == IF Overflows(a, w) THEN WrapAdd(a, w) ELSE a + w

\* the seeds of lines 193-201
SeedAddrs ==
    {base_addr,
     IF entrypoint >= base_addr THEN entrypoint - base_addr
     ELSE Successor(base_addr, FALLBACK_OFFSET)}

RECURSIVE Closure(_, _)
\* the addresses reachable from `todo` by following address + width
Closure(todo, seen) ==
    IF todo = {} THEN seen
    ELSE LET a == CHOOSE x \in todo : TRUE
             next == IF bytes_by_addr(a) /= -1 /\ Decode(a).complete
                     THEN {Successor(a, Decode(a).width)} ELSE {}
         IN  Closure((todo \cup next) \ (seen \cup {a}), seen \cup {a})

\* the table determined by the section, the base, the entry and the decoder alone
ExpectedTable ==
    [a \in {x \in Closure(SeedAddrs, {}) : bytes_by_addr(x) /= -1 /\ Decode(x).complete}
        |-> IF Decode(a).ok THEN MetadataNew(Decode(a)) ELSE Decode(a)]

\* C9: whatever the order in which pending addresses are taken, and whether or not a
\* decoded address is enqueued again, the final table is the one the inputs determine
C9_OrderIndependent == pc = "done" => parsed = ExpectedTable

C9_Witness ==
    /\ pc = "done"
    /\ reenqueued
    /\ Cardinality(DOMAIN parsed) >= 2
    /\ \E j, k \in 1..Len(attempts) : j < k /\ attempts[j].addr > attempts[k].addr

\* C10: the number of table entries never decreases and never exceeds the section length
C10_TableSizeBound ==
    /\ [](TableSize <= section_len)
    /\ [][Cardinality(DOMAIN parsed') >= Cardinality(DOMAIN parsed)]_vars

C10_Witness ==
    /\ pc = "done"
    /\ section_len >= 2
    /\ TableSize = section_len

\* the sums recurse may queue when every addition is checked: the seeds of
\* lines 193-201 and addr + width (line 231) of the attempts made so far
CheckedAddrs ==
    {base_addr}
    \cup (IF CheckedSub(entrypoint, base_addr) >= 0
          THEN {entrypoint - base_addr}
          ELSE {base_addr + FALLBACK_OFFSET} \cap (0..UsizeMax))
    \cup ({attempts[k].addr + attempts[k].res.width :
              k \in {j \in 1..Len(attempts) : attempts[j].res.complete}}
          \cap (0..UsizeMax))

\* C13: the address arithmetic of recurse is overflow-checked: a sum beyond the
\* machine word is skipped, it neither aborts the run nor is queued wrapped.
C13_CheckedAddressArithmetic ==
    /\ pc /= "panic"
    /\ \A i \in 1..Len(unexplored_data) : unexplored_data[i] \in CheckedAddrs

\* C14: recurse starts with exactly two queued addresses, the base address and
\* entry - base, or base + 0x1000 when entry < base, and the run goes on.
C14_TwoSeeds ==
    [][pc = "new" =>
          /\ pc' = "sweep"
          /\ unexplored_data' =
                <<base_addr,
                  IF entrypoint >= base_addr THEN entrypoint - base_addr
                  ELSE base_addr + FALLBACK_OFFSET>>]_vars

\* InspectProcessor::bytes (lines 303-308): the range of the section it slices,
\* [st |-> "panic"] when the subtraction of line 304 or a slice of lines 306-307
\* panics.  Without overflow checks addr - base_addr wraps.
bytes(instruction, addr) ==
    LET rva == IF addr >= base_addr THEN addr - base_addr
               ELSE IF overflow_checks THEN -1
               ELSE addr - base_addr + UsizeMax + 1
        w == instruction.width
    IN  IF rva < 0 \/ rva > section_len
        THEN [st |-> "panic"]
        ELSE IF w > section_len - rva
        THEN [st |-> "panic"]
        ELSE [st |-> "ok", from |-> rva, to |-> rva + w]

\* C15: for every entry of the final table, address >= base and
\* (address - base) + width <= section length, so bytes on that entry does not
\* panic and reads exactly section[address - base .. address - base + width].
C15_BytesSafeOnTable ==
    pc = "done" =>
        \A a \in DOMAIN parsed :
            /\ a >= base_addr
            /\ (a - base_addr) + parsed[a].width <= section_len
            /\ bytes(parsed[a], a) =
                  [st |-> "ok", from |-> a - base_addr,
                   to |-> (a - base_addr) + parsed[a].width]

\* a final table with a success and a failure, one of them ending at the last
\* byte of a section that does not start at address 0
C15_Witness ==
    /\ pc = "done"
    /\ base_addr > 0
    /\ \E a, b \in DOMAIN parsed :
          /\ parsed[a].ok
          /\ ~parsed[b].ok
          /\ bytes(parsed[a], a).to = section_len

\* the sweep is about to decode the address at the head of the work queue
\* (lines 203-216), and the decoder's answer there
Attempting == CanDecode(1)

HeadAddr == unexplored_data[1]

StagedAddrs == {raw_instructions[k].addr : k \in 1..Len(raw_instructions)}

\* C25: when the decode attempt at an in-window address returns a failure that
\* is not complete, nothing is recorded for that address, in the parsed table
\* or in the staging queue, and no successor is enqueued: the step only takes
\* the address off the work queue.
C25_IncompleteDropped ==
    /\ [](\A k \in 1..Len(attempts) :
             ~attempts[k].res.complete =>
                 /\ attempts[k].addr \notin DOMAIN parsed
                 /\ attempts[k].addr \notin StagedAddrs)
    /\ [][(Attempting /\ InWindow(HeadAddr) /\ ~Decode(HeadAddr).complete) =>
              /\ parsed' = parsed
              /\ raw_instructions' = raw_instructions
              /\ unexplored_data' = Tail(unexplored_data)
              /\ pc' = "sweep"]_vars

\* an incomplete failure inside the window was dropped while the table, the
\* staging queue and the work queue all held something
C25_Witness ==
    /\ pc = "sweep"
    /\ attempts /= <<>>
    /\ ~attempts[Len(attempts)].res.complete
    /\ InWindow(attempts[Len(attempts)].addr)
    /\ parsed /= EmptyMap
    /\ raw_instructions /= <<>>
    /\ unexplored_data /= <<>>

\* C26: when the decode attempt at an address returns a complete failure, the
\* failure is inserted into the parsed table at that address during the sweep
\* (it is not staged), exactly one successor, address + incomplete_width, is
\* appended to the work queue, and the sweep goes on.
C26_CompleteFailureRecorded ==
    [][(Attempting /\ ~Decode(HeadAddr).ok /\ Decode(HeadAddr).complete) =>
          /\ parsed' = MapInsert(parsed, HeadAddr, Decode(HeadAddr))
          /\ raw_instructions' = raw_instructions
          /\ unexplored_data' =
                Append(Tail(unexplored_data), HeadAddr + Decode(HeadAddr).width)
          /\ pc' = "sweep"]_vars

RefBad == [ok |-> FALSE, off |-> 0, text |-> <<>>, levels |-> 0]

RECURSIVE RefNumber(_, _)
\* the decimal number at off
RefNumber(off, acc) ==
    IF off < Len(input) /\ IsDigit(input[off + 1])
    THEN RefNumber(off + 1, acc * 10 + IndexIn(Digits, input[off + 1]))
    ELSE [off |-> off, val |-> acc]

\* <identifier> = <decimal-number> ["_"] <bytes>
RefIdent(off) ==
    IF ~(off < Len(input) /\ IsDigit(input[off + 1])) THEN RefBad
    ELSE LET n == RefNumber(off, 0)
             o == IF Peek(n.off) = "_" THEN n.off + 1 ELSE n.off
         IN  IF o + n.val <= Len(input)
             THEN [ok |-> TRUE, off |-> o + n.val,
                   text |-> SubSeq(input, o + 1, o + n.val), levels |-> 0]
             ELSE RefBad

\* the run of "N" <namespace> pairs at off, the namespace not that of closures
RefNest(off) ==
    LET pair(i) ==
            /\ Peek(off + 2 * i) = "N"
            /\ Peek(off + 2 * i + 1) \in (Range(Lower) \cup Range(Upper)) \ {"C"}
        n == CHOOSE k \in 0..Len(input) :
                 (\A i \in 0..(k - 1) : pair(i)) /\ ~pair(k)
    IN  [off |-> off + 2 * n, n |-> n]

RECURSIVE RefNames(_, _)
\* n more identifiers at off, each after "::", read by halves
RefNames(off, n) ==
    IF n = 0 THEN [ok |-> TRUE, off |-> off, text |-> <<>>]
    ELSE IF n = 1
    THEN LET id == RefIdent(off)
         IN  [ok |-> id.ok, off |-> id.off, text |-> <<":", ":">> \o id.text]
    ELSE LET left == RefNames(off, n \div 2)
             right == RefNames(left.off, n - (n \div 2))
         IN  IF left.ok /\ right.ok
             THEN [ok |-> TRUE, off |-> right.off, text |-> left.text \o right.text]
             ELSE [ok |-> FALSE, off |-> off, text |-> <<>>]

\* <path> = "C" <identifier> | "N" <namespace> <path> <identifier>: n pairs
\* "N" <namespace>, the crate root, and n identifiers
RefPath(off) ==
    LET nest == RefNest(off)
        root == RefIdent(nest.off + 1)
        names == RefNames(root.off, nest.n)
    IN  IF Peek(nest.off) = "C" /\ root.ok /\ names.ok
        THEN [ok |-> TRUE, off |-> names.off, text |-> root.text \o names.text,
              levels |-> nest.n + 1]
        ELSE RefBad

\* the whole symbol is a crate root or a nested path, no deeper than the guard allows
IsPlainPath ==
    /\ NonAscii \notin Range(input)
    /\ RefPath(0).ok
    /\ RefPath(0).off = Len(input)
    /\ RefPath(0).levels <= MAX_DEPTH + 1

\* C17: a crate root 'C' + identifier renders as the identifier, a nested path
\* 'N' + namespace + path + identifier as the inner path, "::" and the
\* identifier; the token texts concatenated are exactly that string and the
\* whole input is consumed.
C17_PlainPathRendering ==
    (status = "returned" /\ IsPlainPath) =>
        /\ ret = "some"
        /\ result = "some"
        /\ Text(stream) = RefPath(0).text
        /\ offset = Len(input)

\* a path nested twice, and one with a separator after the length, were parsed
C17_Witness ==
    /\ status = "returned"
    /\ IsPlainPath
    /\ \/ RefPath(0).levels = 3
       \/ \E i \in 1..Len(stream) : stream[i].text = <<"_", "b">>

\* deepest nesting of the symbols the reference rendering of generics reads
MaxRefDepth == 6

RECURSIVE RefGeneric(_, _)
RECURSIVE RefArgs(_, _, _, _)

\* <path> = "C" <identifier> | "N" <namespace> <path> <identifier>
\*        | "I" <path> {<generic-arg>} "E", rendered as the path, "::" unless it
\* starts with "Nt", "<", the arguments joined by ", ", and ">"
RefGeneric(off, fuel) ==
    IF fuel = 0 THEN RefBad
    ELSE IF Peek(off) = "C" THEN RefIdent(off + 1)
    ELSE IF Peek(off) = "N"
            /\ Peek(off + 1) \in (Range(Lower) \cup Range(Upper)) \ {"C"}
    THEN LET inner == RefGeneric(off + 2, fuel - 1)
             id == RefIdent(inner.off)
         IN  IF inner.ok /\ id.ok
             THEN [ok |-> TRUE, off |-> id.off,
                   text |-> inner.text \o <<":", ":">> \o id.text, levels |-> 0]
             ELSE RefBad
    ELSE IF Peek(off) = "I"
    THEN LET p == RefGeneric(off + 1, fuel - 1)
             sep == IF PeekSlice2(off + 1) = <<"N", "t">> THEN <<>> ELSE <<":", ":">>
             args == RefArgs(p.off, fuel - 1, TRUE, <<>>)
         IN  IF p.ok /\ args.ok
             THEN [ok |-> TRUE, off |-> args.off,
                   text |-> p.text \o sep \o <<"<">> \o args.text \o <<">">>,
                   levels |-> 0]
             ELSE RefBad
    ELSE RefBad

\* the generic arguments up to "E": a basic type or a path each
RefArgs(off, fuel, first, text) ==
    IF Peek(off) = "E" THEN [ok |-> TRUE, off |-> off + 1, text |-> text, levels |-> 0]
    ELSE LET arg == IF BasicTipe(Peek(off)) /= <<>>
                    THEN [ok |-> TRUE, off |-> off + 1,
                          text |-> BasicTipe(Peek(off)), levels |-> 0]
                    ELSE RefGeneric(off, fuel)
             comma == IF first THEN <<>> ELSE <<",", " ">>
         IN  IF arg.ok THEN RefArgs(arg.off, fuel, FALSE, text \o comma \o arg.text)
             ELSE RefBad

\* the whole symbol is a generic application
IsGenericApp ==
    /\ NonAscii \notin Range(input)
    /\ Peek(0) = "I"
    /\ RefGeneric(0, MaxRefDepth).ok
    /\ RefGeneric(0, MaxRefDepth).off = Len(input)

\* C18: a generic application 'I' + path + arguments + 'E' renders as the path,
\* then "::" unless the path starts with "Nt", then "<", the arguments joined
\* by ", ", then ">".
C18_GenericRendering ==
    (status = "returned" /\ IsGenericApp) =>
        /\ ret = "some"
        /\ result = "some"
        /\ Text(stream) = RefGeneric(0, MaxRefDepth).text
        /\ offset = Len(input)

\* a type path applied to several arguments, one of them generic itself
C18_Witness ==
    /\ status = "returned"
    /\ IsGenericApp
    /\ PeekSlice2(1) = <<"N", "t">>
    /\ Cardinality({i \in 1..Len(stream) : stream[i].text = <<",", " ">>}) >= 2
    /\ Cardinality({i \in 1..Len(stream) : stream[i].text = <<"<">>}) >= 2

\* the closure symbols of the tests (lines 576-578) and the texts the tests expect
ClosureTests ==
    {[symbol |-> <<"N", "C", "N", "v", "C", "4", "b", "i", "t", "e", "6", "d", "e", "c",
                  "o", "d", "e", "s", "_", "0">>,
      text |-> <<"b", "i", "t", "e", ":", ":", "d", "e", "c", "o", "d", "e", ":", ":",
                "{", "c", "l", "o", "s", "u", "r", "e", "}">>],
     [symbol |-> <<"N", "C", "N", "v", "C", "4", "b", "i", "t", "e", "6", "d", "e", "c",
                  "o", "d", "e", "s", "0", "_">>,
      text |-> <<"b", "i", "t", "e", ":", ":", "d", "e", "c", "o", "d", "e", ":", ":",
                "{", "c", "l", "o", "s", "u", "r", "e", "#", "1", "}">>],
     [symbol |-> <<"N", "C", "N", "v", "C", "4", "b", "i", "t", "e", "6", "d", "e", "c",
                  "o", "d", "e", "s", "0", "_", "3", "w", "o", "w">>,
      text |-> <<"b", "i", "t", "e", ":", ":", "d", "e", "c", "o", "d", "e", ":", ":",
                "{", "c", "l", "o", "s", "u", "r", "e", ":", "w", "o", "w", "#", "1",
                "}">>]}

\* C19: a nested path in the closure namespace renders after its parent as
\* "::{closure}" for the implicit index zero and an empty name, as
\* "::{closure#N}" for an explicit index and as "::{closure:name#N}" when a
\* name is present too.
C19_ClosureRendering ==
    status = "returned" =>
        \A t \in ClosureTests :
            input = t.symbol => result = "some" /\ Text(stream) = t.text

\* the reference and pointer symbols of the tests (lines 509-519) and the
\* texts the tests expect
PointerTests ==
    {[symbol |-> <<"I", "N", "v", "C", "4", "b", "i", "t", "e", "6", "d", "e", "c", "o",
                  "d", "e", "R", "L", "_", "e", "E">>,
      text |-> <<"b", "i", "t", "e", ":", ":", "d", "e", "c", "o", "d", "e", ":", ":",
                "<", "&", "s", "t", "r", ">">>],
     [symbol |-> <<"I", "N", "v", "C", "4", "b", "i", "t", "e", "6", "d", "e", "c", "o",
                  "d", "e", "R", "L", "0", "_", "e", "E">>,
      text |-> <<"b", "i", "t", "e", ":", ":", "d", "e", "c", "o", "d", "e", ":", ":",
                "<", "&", "'", "a", " ", "s", "t", "r", ">">>],
     [symbol |-> <<"I", "N", "v", "C", "4", "b", "i", "t", "e", "6", "d", "e", "c", "o",
                  "d", "e", "Q", "L", "0", "_", "e", "E">>,
      text |-> <<"b", "i", "t", "e", ":", ":", "d", "e", "c", "o", "d", "e", ":", ":",
                "<", "&", "'", "a", " ", "m", "u", "t", " ", "s", "t", "r", ">">>],
     [symbol |-> <<"I", "N", "v", "C", "4", "b", "i", "t", "e", "6", "d", "e", "c", "o",
                  "d", "e", "P", "e", "E">>,
      text |-> <<"b", "i", "t", "e", ":", ":", "d", "e", "c", "o", "d", "e", ":", ":",
                "<", "*", "c", "o", "n", "s", "t", " ", "s", "t", "r", ">">>],
     [symbol |-> <<"I", "N", "v", "C", "4", "b", "i", "t", "e", "6", "d", "e", "c", "o",
                  "d", "e", "O", "e", "E">>,
      text |-> <<"b", "i", "t", "e", ":", ":", "d", "e", "c", "o", "d", "e", ":", ":",
                "<", "*", "m", "u", "t", " ", "s", "t", "r", ">">>]}

\* C20: a type tagged 'R' / 'Q' followed by a lifetime and a type renders
\* "&" / "&mut " around the type, nothing for the implicit lifetime "L_" and
\* the placeholder "'a " for a non-zero lifetime index; a type tagged
\* 'P' / 'O' renders "*const " / "*mut " followed by the type.
C20_PointerRendering ==
    status = "returned" =>
        \A t \in PointerTests :
            input = t.symbol => result = "some" /\ Text(stream) = t.text

\* the trait-impl symbol of the tests (lines 503-507) and the text the test expects
TraitImplTest ==
    [symbol |-> <<"N", "v", "N", "v", "X", "s", "2", "_", "C", "7", "m", "y", "c", "r",
                "a", "t", "e", "I", "N", "t", "C", "7", "m", "y", "c", "r", "a", "t",
                "e", "3", "F", "o", "o", "p", "E", "I", "N", "t", "N", "t", "C", "3",
                "s", "t", "d", "7", "c", "o", "n", "v", "e", "r", "t", "4", "F", "r",
                "o", "m", "p", "E", "4", "f", "r", "o", "m", "3", "M", "S", "G">>,
     text |-> <<"<", "m", "y", "c", "r", "a", "t", "e", ":", ":", "F", "o", "o", "<",
              "_", ">", " ", "a", "s", " ", "s", "t", "d", ":", ":", "c", "o", "n",
              "v", "e", "r", "t", ":", ":", "F", "r", "o", "m", "<", "_", ">", ">",
              ":", ":", "f", "r", "o", "m", ":", ":", "M", "S", "G">>]

\* C21: a path tagged 'X' (optional disambiguator, impl path, self type, trait
\* path) renders exactly "<Type as Trait>", the impl path and the
\* disambiguator contributing no text, and nested names append after it.
C21_TraitImplRendering ==
    (status = "returned" /\ input = TraitImplTest.symbol) =>
        result = "some" /\ Text(stream) = TraitImplTest.text

\* the tuple symbol of the tests (lines 527-531) and the text the test expects
TupleTest ==
    [symbol |-> <<"I", "N", "v", "N", "t", "C", "3", "s", "t", "d", "3", "m", "e", "m",
                "8", "a", "l", "i", "g", "n", "_", "o", "f", "j", "T", "d", "d", "N",
                "v", "C", "4", "c", "o", "r", "e", "3", "p", "t", "r", "E", "E">>,
     text |-> <<"s", "t", "d", ":", ":", "m", "e", "m", ":", ":", "a", "l", "i", "g",
              "n", "_", "o", "f", ":", ":", "<", "u", "s", "i", "z", "e", ",", " ",
              "(", "f", "6", "4", ",", " ", "f", "6", "4", ",", " ", "c", "o", "r",
              "e", ":", ":", "p", "t", "r", ")", ">">>]

\* C22: a type tagged 'T' followed by element types and the sentinel 'E'
\* renders "(" + the element types joined by ", " + ")" and consumes the tag,
\* the elements and the sentinel: the parse of the test symbol ends with the
\* expected text and the whole symbol consumed.
C22_TupleRendering ==
    input = TupleTest.symbol =>
        <>(/\ status = "returned"
           /\ result = "some"
           /\ Text(stream) = TupleTest.text
           /\ offset = Len(input))

\* the parse is about to evaluate Parser::constant: after the element type of
\* an array (line 345) or after the 'K' of a generic argument (line 158)
ReachesConstant ==
    \/ At("tipe", "A1") /\ ret /= "none"
    \/ At("generic", "G1") /\ ret /= "some" /\ Consume(offset, "K")

\* C23: the constant production always fails, so every parse that reaches it
\* returns no result.
C23_ConstantFailsParse ==
    [](ReachesConstant => [](status = "returned" => result = "none"))

\* the offsets at which the step taken next calls Parser::disambiguator: after
\* the tag of a crate root or an impl (lines 226, 234, 244) and after the
\* namespace of a nested path (line 265)
DisambiguatorCalls ==
    IF ~Entering("path") THEN {}
    ELSE IF Peek(offset) \in {"C", "M", "X"} THEN {offset + 1}
    ELSE IF Peek(offset) = "N" /\ Namespace(offset + 1).st = "some" THEN {offset + 2}
    ELSE {}

\* the length of the run of base-62 digits at off
RunOf62(off) ==
    CHOOSE n \in 0..Len(input) :
        /\ \A i \in 0..(n - 1) : IsBase62(Peek(off + i))
        /\ ~IsBase62(Peek(off + n))

RECURSIVE ValueOf62(_, _)
\* the number the n base-62 digits at off denote
ValueOf62(off, n) ==
    IF n = 0 THEN 0
    ELSE ValueOf62(off, n - 1) * 62 + Base62Digit(Peek(off + n - 1))

\* a base-62 number is written at off: "_", or digits and "_", within a machine word
WellFormed62(off) ==
    /\ Peek(off + RunOf62(off)) = "_"
    /\ RunOf62(off) <= UsizeBits
    /\ ValueOf62(off, RunOf62(off)) < UsizeMax

\* the offset just past the base-62 number written at off
PastNumber62(off) == off + RunOf62(off) + 1

\* C24: at 's' followed by a well-formed base-62 number the disambiguator
\* decoder advances the cursor past exactly the 's', the digits and the
\* terminating underscore, and succeeds; when the cursor is not at 's' the
\* cursor is unchanged.  (The decoder has no access to the token stream.)
C24_DisambiguatorConsumed ==
    \A o \in DisambiguatorCalls :
        /\ (Peek(o) = "s" /\ WellFormed62(o + 1)) =>
               /\ Disambiguator(o).st = "some"
               /\ Disambiguator(o).off = PastNumber62(o + 1)
        /\ Peek(o) /= "s" => Disambiguator(o) = None(o)

\* the offsets at which the step taken next calls Parser::base62: from the
\* disambiguator (line 114), a lifetime (line 172), a binder (line 181) and a
\* backreference (line 458)
Base62Calls ==
    {o + 2 : o \in {d \in DisambiguatorCalls : Peek(d) = "s" /\ d + 2 <= Len(input)}}
    \cup (IF /\ \/ At("generic", "enter")
                \/ Matching("R")
                \/ Matching("Q")
             /\ Peek(offset) = "L"
          THEN {offset + 1} ELSE {})
    \cup (IF (Matching("F") \/ Matching("D")) /\ Peek(offset) = "G"
          THEN {offset + 1} ELSE {})
    \cup (IF Matching("B") THEN {offset} ELSE {})

\* C28: a bare '_' decodes to 0 and consumes that one byte; a non-empty run of
\* base-62 digits followed by '_' decodes to their value plus one and leaves
\* the cursor just past the underscore; a run that hits any other byte or the
\* end of the input before an underscore is a failure.
C28_Base62Decoding ==
    \A o \in Base62Calls :
        LET n == RunOf62(o)
        IN  /\ Peek(o) = "_" => Base62(o) = Some(o + 1, 0)
            /\ (n > 0 /\ WellFormed62(o)) =>
                   Base62(o) = Some(o + n + 1, ValueOf62(o, n) + 1)
            /\ Peek(o + n) /= "_" => Base62(o).st = "none"

\* the step returns failure from the top activation (path, tipe or generic)
ReturnsNone == status = "running" /\ stack /= <<>> /\ stack' = Callers /\ ret' = "none"

\* C29: the cursor never decreases during a parse, and whenever a production
\* returns failure the cursor equals its value on entry to that call.
C29_CursorOnlyOnSuccess ==
    [][/\ offset' >= offset
       /\ ReturnsNone => offset' = Top.entry]_vars

\* C30: in every state of a parse the cursor is inside the input,
\* 0 <= offset <= length of the input, also after the disambiguator decoder
\* ran on an input that ends right after the 's'.
C30_CursorInsideInput ==
    offset \in 0..Len(input)

\* the step taken next is an entry to the path or the type production
EntersProduction == At("path", "enter") \/ At("tipe", "enter")

\* C31: the depth counter starts at 0 for each parse, is incremented exactly
\* once on every entry to the path or type production that passes the guard
\* and changed by no other step, so it counts those entries; it never exceeds
\* MAX_DEPTH + 1, and once it is MAX_DEPTH + 1 every further path or type
\* production fails immediately, touching neither cursor nor stream.
C31_DepthAccounting ==
    /\ [](status = "called" => depth = 0)
    /\ [](depth <= MAX_DEPTH + 1)
    /\ [][/\ (EntersProduction /\ depth <= MAX_DEPTH) => depth' = depth + 1
          /\ ~EntersProduction => depth' = depth
          /\ (EntersProduction /\ depth = MAX_DEPTH + 1) =>
                /\ depth' = depth
                /\ stack' = Callers
                /\ ret' = "none"
                /\ offset' = offset
                /\ stream' = stream]_vars

\* a production was refused at the ceiling, and the parse returned
C31_Witness ==
    /\ status = "returned"
    /\ depth = MAX_DEPTH + 1
    /\ ret = "none"
    /\ Len(stream) > MAX_DEPTH \div 4

----------------------------------------------------------------------------
(* Properties of Disassembly::new *)

\* the fallible steps in the order the spec lists them
Steps == <<"read", "parse", "section", "decompress", "debug", "imports", "arch">>

\* whether the step fails on the file
Fails(step) ==
    CASE step = "read" -> ~env.read
      [] step = "parse" -> ~env.parse
      [] step = "section" -> ~env.section
      [] step = "decompress" -> ~env.decompress
      [] step = "debug" -> ~env.debug
      [] step = "imports" -> env.format = "Pe" /\ ~env.imports
      [] step = "arch" -> env.arch \notin Supported

\* the error kind of each step
KindOf(step) ==
    CASE step = "read" -> "ReadFailed"
      [] step = "parse" -> "IncompleteObject"
      [] step = "section" -> "NoEntrypoint"
      [] step = "decompress" -> "DecompressionFailed"
      [] step = "debug" -> "IncompleteSymbolTable"
      [] step = "imports" -> "IncompleteImportTable"
      [] step = "arch" -> "UnknownArchitecture"

\* index of the first step that fails, 0 when none does
FirstFailing ==
    IF \E i \in 1..Len(Steps) : Fails(Steps[i])
    THEN CHOOSE i \in 1..Len(Steps) :
            /\ Fails(Steps[i])
            /\ \A j \in 1..(i - 1) : ~Fails(Steps[j])
    ELSE 0

\* the steps up to the n-th, the import table only for a PE file
StepsUpTo(n) ==
    SelectSeq(SubSeq(Steps, 1, n), LAMBDA st : st /= "imports" \/ env.format = "Pe")

\* C16: a load that returns an error returns the kind of the first failing step,
\* having run each step up to it once and none after it, and without a
\* Processor; a Processor exists only when no step fails, and a file of an
\* unsupported architecture never loads.
C16_DispatchErrorsTerminal ==
    /\ stage = "err" =>
          /\ FirstFailing /= 0
          /\ error = KindOf(Steps[FirstFailing])
          /\ trail = StepsUpTo(FirstFailing)
          /\ pc = "idle"
    /\ pc /= "idle" => FirstFailing = 0 /\ error = "none"
    /\ env.arch \notin Supported => stage /= "ok" /\ pc = "idle"
    /\ (stage = "err" /\ FirstFailing = Len(Steps)) => error = "UnknownArchitecture"

\* the symbol table of a PE file fails to parse; its import table and its
\* architecture would fail too
C16_Witness ==
    /\ stage = "err"
    /\ error = "IncompleteSymbolTable"
    /\ env.format = "Pe"
    /\ ~env.imports
    /\ env.arch \notin Supported

\* the load has begun and nothing of what it returns is shown yet
Loading == stage /= "called" /\ dissasembly = "none"

====
